---- MODULE Spec2Model ----
(***************************************************************************)
(* Sharded counter, cache-aside entity accessor and session store of the   *)
(* gae library (package gae, release 0.18), over the App Engine Datastore  *)
(* and Memcache.                                                           *)
(*                                                                         *)
(* Every Datastore or Memcache call is one step of the calling process; a  *)
(* transaction is a body step followed by a commit step, and a commit that *)
(* finds its read set overwritten re-runs the body (optimistic             *)
(* concurrency, datastore.RunInTransaction).                               *)
(***************************************************************************)
EXTENDS Integers, Sequences, FiniteSets, TLC

(* ------------------------------ bounds -------------------------------- *)

\* calls issued in one run, over all callers
MaxCalls == 3

Procs == {"p1", "p2"}
Names == {"hits", "hits-shard1"}
NameSeq == <<"hits", "hits-shard1">>
\* the counters the callers of a run name: one, or both in a run on two
CallNames(w) == IF w = "counters" THEN Names ELSE {"hits"}
\* the shard totals callers ask IncreaseShards for: none, below the default,
\* above the default
ShardArgs == {0, 3, 6}
\* no counter of a run has more shards than this (below 10, so that the key
\* order of the shard records is the order of their indices)
MaxShards == 6
\* the clock ticks of a run
MaxTicks == 2
\* seconds a session is issued for: expired at once, or one tick
Durations == {-1, 1}

(* ------------------------- program constants -------------------------- *)

\* time.Now() when the run begins
StartTime == 2

KindCounterShard == "GAECounterShard"
KindSession == "GAESession"
KindOintment == "Ointment"
defaultShards == 5
\* Expiration of the cached total, in seconds
CountExpiration == 60

(* ------------------------------ helpers ------------------------------- *)

NoErr == "nil"
\* a Datastore call or transaction failed
ErrStore == "store error"
\* a Memcache call failed
ErrCache == "cache error"
\* datastore.DecodeKey, datastore.Get
ErrDecode == "invalid key"
ErrNoSuchEntity == "datastore: no such entity"

ReturnAnyError(e) == e

\* a Memcache result the code drops: //ignore any error
IgnoreAnyError(e) == NoErr

\* the largest total the runs of this model can produce
MaxTotal == 2 * MaxCalls * MaxCalls

Put(f, k, v) == (k :> v) @@ f
RemoveNothing(f, k) == f
Remove(f, k) == [x \in (DOMAIN f) \ {k} |-> f[x]]

counterMemcacheKeyShared(name) == KindCounterShard

\* counterMemcacheKey
counterMemcacheKey(name) == KindCounterShard \o ":" \o name

ShardKey(name, i) == name \o "-shard" \o ToString(i)

\* the shard keys in the key order a query yields them
ShardKeySeq ==
    [j \in 1..(Len(NameSeq) * MaxShards) |->
        ShardKey(NameSeq[((j - 1) \div MaxShards) + 1], (j - 1) % MaxShards)]

\* memcache.JSON: an int is stored as a JSON number, its decimal text
EncodeInt(n) == [doc |-> "number", text |-> ToString(n)]
IsInt(b) == b.doc = "number"
DecodeInt(b) == CHOOSE n \in 0..MaxTotal : ToString(n) = b.text

ZeroShard == [Name |-> "", Count |-> 0]

(* ------------------------- keys, times, records ----------------------- *)

\* key.Encode() of the complete key with id i of either kind
OintmentKey(i) == "o" \o ToString(i)
SessionKey(i) == "s" \o ToString(i)

DecodesAnything ==
    {"bad"} \cup {OintmentKey(i) : i \in 0..MaxCalls} \cup {SessionKey(i) : i \in 0..MaxCalls}

\* the strings datastore.DecodeKey accepts
Decodable == {OintmentKey(i) : i \in 0..MaxCalls} \cup {SessionKey(i) : i \in 0..MaxCalls}

NilKey == ""
\* datastore.NewIncompleteKey(ctx, "Ointment", nil)
IncompleteKey == "incomplete"

\* time.Time{}: IsZero, and before every other time
ZeroTime == 0
\* the time.Time values of a run
Times == 0..(StartTime + MaxTicks + 3)

\* Format(time.RFC3339) and time.Parse(time.RFC3339, s)
FormatTime(t) == ToString(t)
ParseTime(text) == CHOOSE t \in Times : FormatTime(t) = text

ZeroOintment == [KeyID |-> NilKey, Batch |-> 0, Expiry |-> ZeroTime, Name |-> ""]
ZeroSession == [KeyID |-> NilKey, Name |-> "", Value |-> "", Expiration |-> ZeroTime]

\* the records callers save: an expiry and no name; a name and an expiry; a
\* name only
OintmentInputs ==
    { [ZeroOintment EXCEPT !.Batch = 1, !.Expiry = StartTime + 3],
      [ZeroOintment EXCEPT !.Batch = 1, !.Name = "a", !.Expiry = StartTime + 3],
      [ZeroOintment EXCEPT !.Batch = 1, !.Name = "b"] }

\* the records callers read into: a fresh one, and one used before
IntoInputs == {ZeroOintment, [ZeroOintment EXCEPT !.Expiry = StartTime + 1, !.Name = "old"]}

ValidationErrorNone(m) == <<>>

\* Ointment.ValidationError
ValidationError(m) == IF m.Name = "" THEN <<"Name is required">> ELSE <<>>

\* strings.Join(msgs, ", ")
RECURSIVE Join(_)
Join(msgs) ==
    IF Len(msgs) = 1 THEN msgs[1] ELSE msgs[1] \o ", " \o Join(Tail(msgs))

\* ValidityError{Msg: msg}.Error()
ValidityError(msg) == "validation error - " \o msg

PresaveNothing(m) == m

\* Ointment.Presave: an expiry that is set moves a month back
Presave(m) == IF m.Expiry # ZeroTime THEN [m EXCEPT !.Expiry = @ - 1] ELSE m

\* Ointment.MakeKey
MakeKey(m) == IF m.KeyID = NilKey THEN [m EXCEPT !.KeyID = IncompleteKey] ELSE m

\* the properties datastore.Put stores of a record
OintmentProps(m) ==
    [kind |-> KindOintment, Batch |-> m.Batch, Expiry |-> m.Expiry, Name |-> m.Name]
SessionProps(s) ==
    [kind |-> KindSession, Name |-> s.Name, Value |-> s.Value, Expiration |-> s.Expiration]

LoadOintmentNoKey(e, k, m) ==
    [KeyID |-> m.KeyID, Batch |-> e.Batch, Expiry |-> e.Expiry, Name |-> e.Name]

\* datastore.Get(ctx, k, m) of an entity of the record's kind, then m.SetKey(k)
LoadOintment(e, k, m) ==
    [KeyID |-> k, Batch |-> e.Batch, Expiry |-> e.Expiry, Name |-> e.Name]
LoadSessionNoExpiration(e, s) ==
    [s EXCEPT !.Name = e.Name, !.Value = e.Value]

\* datastore.Get(ctx, k, s): KeyID is not a property
LoadSession(e, s) ==
    [s EXCEPT !.Name = e.Name, !.Value = e.Value, !.Expiration = e.Expiration]

\* DateTime.MarshalJSON
MarshalDateTime(t) == IF t = ZeroTime THEN "" ELSE FormatTime(t)
\* DateTime.UnmarshalJSON into a field that holds d: the empty string
\* assigns to the local pointer only
UnmarshalDateTime(text, d) == IF text = "" THEN d ELSE ParseTime(text)

MarshalSessionNoExpiration(s) ==
    [doc |-> "object", KeyID |-> s.KeyID, Name |-> s.Name, Value |-> s.Value]

MarshalOintmentNoName(m) ==
    [doc |-> "object", id |-> m.KeyID, batch |-> m.Batch,
     Expiry |-> MarshalDateTime(m.Expiry)]

\* json.Marshal of an *Ointment and of a *Session
MarshalOintment(m) ==
    [doc |-> "object", id |-> m.KeyID, batch |-> m.Batch,
     Expiry |-> MarshalDateTime(m.Expiry), Name |-> m.Name]
MarshalSession(s) ==
    [doc |-> "object", KeyID |-> s.KeyID, Name |-> s.Name, Value |-> s.Value,
     Expiration |-> FormatTime(s.Expiration)]

\* json.Unmarshal returns nil: the bytes are a JSON object whose members fit
\* the fields they name
Unmarshals(d) == d.doc = "object"

\* bytes some other code left in the cache: a JSON object with a Name and,
\* after it, a member that fits no field; json.Unmarshal assigns the Name
\* and returns an error
BrokenDoc == [doc |-> "broken", Name |-> "junk"]

\* json.Unmarshal(d, m): the members of d that name a field of m are assigned
UnmarshalOintment(d, m) ==
    [KeyID |-> IF "id" \in DOMAIN d THEN d.id ELSE m.KeyID,
     Batch |-> IF "batch" \in DOMAIN d THEN d.batch ELSE m.Batch,
     Expiry |-> IF "Expiry" \in DOMAIN d
                THEN UnmarshalDateTime(d.Expiry, m.Expiry) ELSE m.Expiry,
     Name |-> IF "Name" \in DOMAIN d THEN d.Name ELSE m.Name]
UnmarshalSession(d, s) ==
    [KeyID |-> IF "KeyID" \in DOMAIN d THEN d.KeyID ELSE s.KeyID,
     Name |-> IF "Name" \in DOMAIN d THEN d.Name ELSE s.Name,
     Value |-> IF "Value" \in DOMAIN d THEN d.Value ELSE s.Value,
     Expiration |-> IF "Expiration" \in DOMAIN d
                    THEN ParseTime(d.Expiration) ELSE s.Expiration]

\* Session.Valid at time t
ValidWhenSet(s, t) == s.Expiration # ZeroTime

\* Session.Valid at time t
Valid(s, t) ==
    IF s.Expiration = ZeroTime THEN FALSE
    ELSE IF s.Expiration < t THEN FALSE
    ELSE TRUE

(* ------------------------------- state -------------------------------- *)

VARIABLES
    configs,    \* Datastore, kind GAECounterConfig: name -> [Shards]
    shards,     \* Datastore, kind GAECounterShard: key -> [Name, Count]
    cache,      \* Memcache: key -> [Value, Expiration]
    pc,         \* where each caller stands in its call
    loc,        \* the local variables of each caller's call
    stale,      \* the caller's open transaction has lost its read set
    ret,        \* what each caller's last call returned
    calls,      \* calls issued so far
    succeeded,  \* per counter: Increment calls that returned nil
    pop,        \* per counter: history of the cached total since it was set
    lastIS,     \* per counter: the last IncreaseShards that committed, and the
                \* largest n of those that did
    store,      \* Datastore, kinds Ointment and GAESession: key -> properties
    nextId,     \* per kind: the id the Datastore gives the next incomplete key
    now,        \* time.Now()
    workload,   \* what the callers of this run use: the counter, entities or sessions
    committed   \* Datastore, kind Ointment: every <<key, properties>> a Put committed

vars == <<configs, shards, cache, pc, loc, stale, ret, calls, succeeded, pop, lastIS,
          store, nextId, now, workload, committed>>

NoIS == [set |-> FALSE, n |-> 0, pre |-> 0, post |-> 0, most |-> 0]

\* the locals of a call (op .. pos) and what the call has done so far
LocZero ==
    [op |-> "", name |-> "", n |-> 0,
     cfg |-> 0, changed |-> FALSE,
     s |-> ZeroShard, key |-> "",
     total |-> 0, pos |-> 0,
     cacheFailed |-> FALSE,  \* a Memcache call of this call failed
     touched |-> FALSE,      \* this call has called the Datastore
     wshard |-> FALSE,       \* this call has written a shard record
     wcache |-> FALSE,       \* this call has changed the cached total
     quiet |-> FALSE,        \* Count: no Increment was under way when it began
     steady |-> FALSE,       \* nothing it reads was written since the call began
     k0 |-> 0,               \* Count: Increments that had returned nil when it began
     c0 |-> 0,               \* Count: shard transactions committed when its scan began
     pre |-> 0,              \* IncreaseShards: Shards stored before its commit, 0 if none
     post |-> 0,             \* IncreaseShards: Shards stored after its commit
     prev |-> NoIS,          \* IncreaseShards: the commit before its own
     id |-> "",              \* the id or token the call is about
     m |-> ZeroOintment,     \* the caller's record
     sess |-> ZeroSession,   \* the session of the call
     ok |-> FALSE,           \* CheckSession: the result
     storeFailed |-> FALSE,  \* a Datastore-side call of this call failed
     undes |-> FALSE,        \* the cache entry it read did not deserialize
     alone |-> FALSE,        \* no other call on its id has run since it began
     delStart |-> FALSE,     \* when it began its id was given out and not stored
     coldStart |-> FALSE,    \* when it began the cache held no entry under its id
     retried |-> FALSE]      \* the Datastore has run a transaction body of it again

RetZero == [value |-> 0, err |-> NoErr, path |-> "", l |-> LocZero]

PopZero == [set |-> FALSE, v |-> 0, bumps |-> 0, commits |-> 0]

\* the state after construction, of a run of one of the kinds W
Start(W) ==
    /\ configs = <<>>
    /\ shards = <<>>
    /\ cache = <<>>
    /\ pc = [p \in Procs |-> "idle"]
    /\ loc = [p \in Procs |-> LocZero]
    /\ stale = [p \in Procs |-> FALSE]
    /\ ret = [p \in Procs |-> RetZero]
    /\ calls = 0
    /\ succeeded = [c \in Names |-> 0]
    /\ pop = [c \in Names |-> PopZero]
    /\ lastIS = [c \in Names |-> NoIS]
    /\ store = <<>>
    /\ nextId = [k \in {KindOintment, KindSession} |-> 1]
    /\ now = StartTime
    /\ workload \in W
    /\ committed = {}

Init == Start({"counter", "entity", "session"})


(* --------------------------- call plumbing ---------------------------- *)

IncPcs == {"inc_cfg", "inc_cfg_commit", "inc_shard", "inc_shard_commit", "inc_cache"}

\* what is remembered of a call that has returned
Kept(l) ==
    [l EXCEPT !.cfg = 0, !.changed = FALSE, !.s = ZeroShard, !.key = "",
              !.total = 0, !.pos = 0, !.c0 = 0]

\* caller p returns: its locals are gone, the result is kept
Leave(p, l, value, err, path) ==
    /\ pc' = [pc EXCEPT ![p] = "idle"]
    /\ ret' = [ret EXCEPT ![p] = [value |-> value, err |-> err, path |-> path,
                                  l |-> Kept(l)]]

Finish(p, l, value, err, path) ==
    /\ Leave(p, l, value, err, path)
    /\ loc' = [loc EXCEPT ![p] = LocZero]

\* the locals after p, now with locals lp, has written the entity under key
LocAfter(p, lp, key) ==
    [q \in Procs |->
        IF q = p THEN lp
        ELSE IF loc[q].id = key THEN [loc[q] EXCEPT !.steady = FALSE]
        ELSE loc[q]]

\* the open transaction of q read the config of counter name
ReadsConfig(q, name) ==
    /\ pc[q] \in {"inc_cfg_commit", "is_commit"}
    /\ loc[q].name = name

\* the open transaction of q read the shard record under key
ReadsShard(q, key) ==
    /\ pc[q] = "inc_shard_commit"
    /\ loc[q].key = key

(* ------------------------- CounterIncrement --------------------------- *)

StartIncrement(p) ==
    /\ workload \in {"counter", "counters"}
    /\ pc[p] = "idle"
    /\ calls < MaxCalls
    /\ \E name \in CallNames(workload) :
          loc' = [loc EXCEPT ![p] = [LocZero EXCEPT !.op = "Increment", !.name = name]]
    /\ pc' = [pc EXCEPT ![p] = "inc_cfg"]
    /\ calls' = calls + 1
    /\ ret' = [ret EXCEPT ![p] = RetZero]
    /\ UNCHANGED <<store, nextId, committed, now, workload, configs, shards, cache, stale, succeeded, pop, lastIS>>

\* body of the first transaction: Get the config, Put the default if absent
IncCfgBody(p) ==
    /\ pc[p] = "inc_cfg"
    /\ LET l == loc[p] IN
       \/ /\ l.name \in DOMAIN configs
          /\ loc' = [loc EXCEPT ![p] = [l EXCEPT !.cfg = configs[l.name].Shards,
                                                !.changed = FALSE, !.touched = TRUE]]
          /\ pc' = [pc EXCEPT ![p] = "inc_cfg_commit"]
          /\ UNCHANGED ret
       \/ /\ l.name \notin DOMAIN configs
          /\ loc' = [loc EXCEPT ![p] = [l EXCEPT !.cfg = defaultShards,
                                                !.changed = TRUE, !.touched = TRUE]]
          /\ pc' = [pc EXCEPT ![p] = "inc_cfg_commit"]
          /\ UNCHANGED ret
       \/ Finish(p, [l EXCEPT !.touched = TRUE, !.storeFailed = TRUE], 0, ErrStore, "")
    /\ stale' = [stale EXCEPT ![p] = FALSE]
    /\ UNCHANGED <<store, nextId, committed, now, workload, configs, shards, cache, calls, succeeded, pop, lastIS>>

\* a commit that does not check what the transaction read
IncCfgCommitUnchecked(p) ==
    /\ pc[p] = "inc_cfg_commit"
    /\ LET l == loc[p] IN
       \/ /\ pc' = [pc EXCEPT ![p] = "inc_shard"]
          /\ IF l.changed
             THEN /\ configs' = Put(configs, l.name, [Shards |-> l.cfg])
                  /\ stale' = [q \in Procs |->
                                  stale[q] \/ (q # p /\ ReadsConfig(q, l.name))]
             ELSE UNCHANGED <<configs, stale>>
          /\ UNCHANGED <<loc, ret>>
       \/ /\ Finish(p, [l EXCEPT !.storeFailed = TRUE], 0, ErrStore, "")
          /\ stale' = [stale EXCEPT ![p] = FALSE]
          /\ UNCHANGED configs
    /\ UNCHANGED <<store, nextId, committed, now, workload, shards, cache, calls, succeeded, pop, lastIS>>

IncCfgCommit(p) ==
    /\ pc[p] = "inc_cfg_commit"
    /\ LET l == loc[p] IN
       \/ /\ stale[p]
          /\ pc' = [pc EXCEPT ![p] = "inc_cfg"]
          /\ loc' = [loc EXCEPT ![p].retried = TRUE]
          /\ UNCHANGED <<configs, ret, stale>>
       \/ /\ ~stale[p]
          /\ pc' = [pc EXCEPT ![p] = "inc_shard"]
          /\ IF l.changed
             THEN /\ configs' = Put(configs, l.name, [Shards |-> l.cfg])
                  /\ stale' = [q \in Procs |->
                                  stale[q] \/ (q # p /\ ReadsConfig(q, l.name))]
             ELSE UNCHANGED <<configs, stale>>
          /\ UNCHANGED <<loc, ret>>
       \/ /\ Finish(p, [l EXCEPT !.storeFailed = TRUE], 0, ErrStore, "")
          /\ stale' = [stale EXCEPT ![p] = FALSE]
          /\ UNCHANGED configs
    /\ UNCHANGED <<store, nextId, committed, now, workload, shards, cache, calls, succeeded, pop, lastIS>>

\* what the body of the second transaction leaves in s for shard key k
ShardAfterGet(s, k) == IF k \in DOMAIN shards THEN shards[k] ELSE s

IntnInclusive(n) == 0..n

\* the values rand.Intn(n) can return
Intn(n) == 0..(n - 1)

\* body of the second transaction: draw a shard, Get it, count one up, Put
IncShardBody(p) ==
    /\ pc[p] = "inc_shard"
    /\ LET l == loc[p] IN
       \/ \E i \in Intn(l.cfg) :
             LET k == ShardKey(l.name, i)
                 got == ShardAfterGet(l.s, k)
             IN /\ loc' = [loc EXCEPT ![p] =
                              [l EXCEPT !.key = k,
                                        !.s = [Name |-> l.name, Count |-> got.Count + 1]]]
                /\ pc' = [pc EXCEPT ![p] = "inc_shard_commit"]
                /\ UNCHANGED ret
       \/ Finish(p, [l EXCEPT !.storeFailed = TRUE], 0, ErrStore, "")
    /\ stale' = [stale EXCEPT ![p] = FALSE]
    /\ UNCHANGED <<store, nextId, committed, now, workload, configs, shards, cache, calls, succeeded, pop, lastIS>>

\* a commit that is not atomic: its failure leaves the Put behind
IncShardCommitDirty(p) ==
    /\ pc[p] = "inc_shard_commit"
    /\ LET l == loc[p] IN
       \/ /\ stale[p]
          /\ pc' = [pc EXCEPT ![p] = "inc_shard"]
          /\ loc' = [loc EXCEPT ![p].retried = TRUE]
          /\ UNCHANGED <<shards, ret, stale, pop>>
       \/ /\ ~stale[p]
          /\ pc' = [pc EXCEPT ![p] = "inc_cache"]
          /\ shards' = Put(shards, l.key, l.s)
          /\ stale' = [q \in Procs |-> stale[q] \/ (q # p /\ ReadsShard(q, l.key))]
          /\ loc' = [loc EXCEPT ![p].wshard = TRUE]
          /\ UNCHANGED <<ret, pop>>
       \/ /\ Finish(p, [l EXCEPT !.storeFailed = TRUE], 0, ErrStore, "")
          /\ shards' = Put(shards, l.key, l.s)
          /\ stale' = [stale EXCEPT ![p] = FALSE]
          /\ UNCHANGED pop
    /\ UNCHANGED <<store, nextId, committed, now, workload, configs, cache, calls, succeeded, lastIS>>

\* a commit that does not check what the transaction read
IncShardCommitUnchecked(p) ==
    /\ pc[p] = "inc_shard_commit"
    /\ LET l == loc[p] IN
       \/ /\ pc' = [pc EXCEPT ![p] = "inc_cache"]
          /\ shards' = Put(shards, l.key, l.s)
          /\ stale' = [q \in Procs |-> stale[q] \/ (q # p /\ ReadsShard(q, l.key))]
          /\ pop' = [pop EXCEPT ![l.name].commits =
                        IF pop[l.name].set THEN @ + 1 ELSE @]
          /\ loc' = [q \in Procs |->
                        IF q = p THEN [l EXCEPT !.wshard = TRUE]
                        ELSE IF loc[q].op = "Count" /\ loc[q].name = l.name
                             THEN [loc[q] EXCEPT !.steady = FALSE]
                             ELSE loc[q]]
          /\ UNCHANGED ret
       \/ /\ Finish(p, [l EXCEPT !.storeFailed = TRUE], 0, ErrStore, "")
          /\ stale' = [stale EXCEPT ![p] = FALSE]
          /\ UNCHANGED <<shards, pop>>
    /\ UNCHANGED <<store, nextId, committed, now, workload, configs, cache, calls, succeeded, lastIS>>

IncShardCommit(p) ==
    /\ pc[p] = "inc_shard_commit"
    /\ LET l == loc[p] IN
       \/ /\ stale[p]
          /\ pc' = [pc EXCEPT ![p] = "inc_shard"]
          /\ loc' = [loc EXCEPT ![p].retried = TRUE]
          /\ UNCHANGED <<shards, ret, stale, pop>>
       \/ /\ ~stale[p]
          /\ pc' = [pc EXCEPT ![p] = "inc_cache"]
          /\ shards' = Put(shards, l.key, l.s)
          /\ stale' = [q \in Procs |-> stale[q] \/ (q # p /\ ReadsShard(q, l.key))]
          /\ pop' = [pop EXCEPT ![l.name].commits =
                        IF pop[l.name].set THEN @ + 1 ELSE @]
          /\ loc' = [q \in Procs |->
                        IF q = p THEN [l EXCEPT !.wshard = TRUE]
                        ELSE IF loc[q].op = "Count" /\ loc[q].name = l.name
                             THEN [loc[q] EXCEPT !.steady = FALSE]
                             ELSE loc[q]]
          /\ UNCHANGED ret
       \/ /\ Finish(p, [l EXCEPT !.storeFailed = TRUE], 0, ErrStore, "")
          /\ stale' = [stale EXCEPT ![p] = FALSE]
          /\ UNCHANGED <<shards, pop>>
    /\ UNCHANGED <<store, nextId, committed, now, workload, configs, cache, calls, succeeded, lastIS>>

IncrementExistingNot(c, k) == c

IncrementOrCreate(c, k) ==
    IF k \in DOMAIN c /\ IsInt(c[k].Value)
    THEN [c EXCEPT ![k].Value = EncodeInt(DecodeInt(c[k].Value) + 1)]
    ELSE Put(c, k, [Value |-> EncodeInt(1), Expiration |-> 0])

\* memcache.IncrementExisting(key, 1): adds to a decimal value that is there
IncrementExisting(c, k) ==
    IF k \in DOMAIN c /\ IsInt(c[k].Value)
    THEN [c EXCEPT ![k].Value = EncodeInt(DecodeInt(c[k].Value) + 1)]
    ELSE c

IncCache(p) ==
    /\ pc[p] = "inc_cache"
    /\ succeeded' = [succeeded EXCEPT ![loc[p].name] = @ + 1]
    /\ LET l == loc[p]
           k == counterMemcacheKey(l.name)
       IN \/ /\ cache' = IncrementExisting(cache, k)
             /\ pop' = [pop EXCEPT ![l.name].bumps =
                           IF k \in DOMAIN cache THEN @ + 1 ELSE @]
             /\ Finish(p, [l EXCEPT !.wcache = (cache' # cache)], 0, NoErr, "")
          \/ /\ UNCHANGED <<cache, pop>>
             /\ Finish(p, [l EXCEPT !.cacheFailed = TRUE], 0, IgnoreAnyError(ErrCache), "")
    /\ UNCHANGED <<store, nextId, committed, now, workload, configs, shards, stale, calls, lastIS>>

(* --------------------------- CounterCount ----------------------------- *)

StartCount(p) ==
    /\ workload \in {"counter", "counters"}
    /\ pc[p] = "idle"
    /\ calls < MaxCalls
    /\ \E name \in CallNames(workload) :
          loc' = [loc EXCEPT ![p] =
                     [LocZero EXCEPT !.op = "Count", !.name = name,
                                     !.quiet = \A q \in Procs : pc[q] \notin IncPcs,
                                     !.steady = TRUE,
                                     !.k0 = succeeded[name]]]
    /\ pc' = [pc EXCEPT ![p] = "cnt_get"]
    /\ calls' = calls + 1
    /\ ret' = [ret EXCEPT ![p] = RetZero]
    /\ UNCHANGED <<store, nextId, committed, now, workload, configs, shards, cache, stale, succeeded, pop, lastIS>>

CacheHitNever(c, k) == FALSE

\* memcache.JSON.Get returned err == nil: the entry is there and decodes
CacheHit(c, k) == k \in DOMAIN c /\ IsInt(c[k].Value)

\* the shard transactions of Increment(name) that have committed: those of
\* the calls that have returned nil and of the calls at their cache update
ShardCommits(name) ==
    succeeded[name]
    + Cardinality({q \in Procs : pc[q] = "inc_cache" /\ loc[q].name = name})

\* memcache.JSON.Get(ctx, mkey, &total)
CountGet(p) ==
    /\ pc[p] = "cnt_get"
    /\ LET l == loc[p]
           k == counterMemcacheKey(l.name)
       IN \/ /\ CacheHit(cache, k)
             /\ Finish(p, l, DecodeInt(cache[k].Value), NoErr, "cache")
          \/ /\ ~CacheHit(cache, k)
             /\ pc' = [pc EXCEPT ![p] = "cnt_scan"]
             /\ loc' = [loc EXCEPT ![p].c0 = ShardCommits(l.name)]
             /\ UNCHANGED ret
          \/ /\ pc' = [pc EXCEPT ![p] = "cnt_scan"]
             /\ loc' = [loc EXCEPT ![p].cacheFailed = TRUE,
                                   ![p].c0 = ShardCommits(l.name)]
             /\ UNCHANGED ret
    /\ UNCHANGED <<store, nextId, committed, now, workload, configs, shards, cache, stale, calls, succeeded, pop, lastIS>>

\* the positions after pos that hold a shard record of counter name
Matching(pos, name) ==
    {j \in (pos + 1)..Len(ShardKeySeq) :
        /\ ShardKeySeq[j] \in DOMAIN shards
        /\ shards[ShardKeySeq[j]].Name = name}

Min(S) == CHOOSE x \in S : \A y \in S : x <= y

AccumulateLast(total, rec) == rec.Count

\* total += s.Count
Accumulate(total, rec) == total + rec.Count

\* one it.Next(&s) of the query on Name = name
CountNext(p) ==
    /\ pc[p] = "cnt_scan"
    /\ LET l == loc[p]
           m == Matching(l.pos, l.name)
       IN \/ /\ m # {}
             /\ loc' = [loc EXCEPT ![p] =
                           [l EXCEPT !.pos = Min(m), !.touched = TRUE,
                                     !.total = Accumulate(@, shards[ShardKeySeq[Min(m)]])]]
             /\ UNCHANGED <<pc, ret>>
          \/ /\ m = {}
             /\ loc' = [loc EXCEPT ![p].touched = TRUE]
             /\ pc' = [pc EXCEPT ![p] = "cnt_set"]
             /\ UNCHANGED ret
          \/ Finish(p, [l EXCEPT !.touched = TRUE, !.storeFailed = TRUE], l.total, ErrStore, "scan")
    /\ UNCHANGED <<store, nextId, committed, now, workload, configs, shards, cache, stale, calls, succeeded, pop, lastIS>>

\* memcache.JSON.Set of the total, its result ignored
CountSet(p) ==
    /\ pc[p] = "cnt_set"
    /\ LET l == loc[p]
           k == counterMemcacheKey(l.name)
       IN \/ /\ cache' = Put(cache, k, [Value |-> EncodeInt(l.total),
                                        Expiration |-> CountExpiration])
             /\ pop' = [pop EXCEPT ![l.name] = [PopZero EXCEPT !.set = TRUE, !.v = l.total]]
             /\ Finish(p, [l EXCEPT !.wcache = TRUE], l.total, NoErr, "scan")
          \/ /\ UNCHANGED <<cache, pop>>
             /\ Finish(p, [l EXCEPT !.cacheFailed = TRUE], l.total,
                       IgnoreAnyError(ErrCache), "scan")
    /\ UNCHANGED <<store, nextId, committed, now, workload, configs, shards, stale, calls, succeeded, lastIS>>

(* ----------------------- CounterIncreaseShards ------------------------ *)

StartIncreaseShards(p) ==
    /\ workload \in {"counter", "counters"}
    /\ pc[p] = "idle"
    /\ calls < MaxCalls
    /\ \E name \in CallNames(workload), n \in ShardArgs :
          loc' = [loc EXCEPT ![p] =
                     [LocZero EXCEPT !.op = "IncreaseShards", !.name = name, !.n = n]]
    /\ pc' = [pc EXCEPT ![p] = "is_body"]
    /\ calls' = calls + 1
    /\ ret' = [ret EXCEPT ![p] = RetZero]
    /\ UNCHANGED <<store, nextId, committed, now, workload, configs, shards, cache, stale, succeeded, pop, lastIS>>

RaiseToAny(c, n) ==
    IF c # n THEN [Shards |-> n, changed |-> TRUE]
             ELSE [Shards |-> c, changed |-> FALSE]

RaiseToDelta(c, n) ==
    IF 0 < n THEN [Shards |-> c + n, changed |-> TRUE]
             ELSE [Shards |-> c, changed |-> FALSE]

RaiseToAlways(c, n) ==
    IF c < n THEN [Shards |-> n, changed |-> TRUE]
             ELSE [Shards |-> c, changed |-> TRUE]

\* if cfg.Shards < n { cfg.Shards = n; changed = true }
RaiseTo(c, n) ==
    IF c < n THEN [Shards |-> n, changed |-> TRUE]
             ELSE [Shards |-> c, changed |-> FALSE]

IncreaseShardsBody(p) ==
    /\ pc[p] = "is_body"
    /\ LET l == loc[p] IN
       \/ /\ l.name \in DOMAIN configs
          /\ LET r == RaiseTo(configs[l.name].Shards, l.n) IN
             loc' = [loc EXCEPT ![p] = [l EXCEPT !.cfg = r.Shards,
                                                !.changed = r.changed,
                                                !.touched = TRUE]]
          /\ pc' = [pc EXCEPT ![p] = "is_commit"]
          /\ UNCHANGED ret
       \/ /\ l.name \notin DOMAIN configs
          /\ LET r == RaiseTo(defaultShards, l.n) IN
             loc' = [loc EXCEPT ![p] = [l EXCEPT !.cfg = r.Shards,
                                                !.changed = TRUE,
                                                !.touched = TRUE]]
          /\ pc' = [pc EXCEPT ![p] = "is_commit"]
          /\ UNCHANGED ret
       \/ Finish(p, [l EXCEPT !.touched = TRUE, !.storeFailed = TRUE], 0, ErrStore, "")
    /\ stale' = [stale EXCEPT ![p] = FALSE]
    /\ UNCHANGED <<store, nextId, committed, now, workload, configs, shards, cache, calls, succeeded, pop, lastIS>>

\* a commit that does not check what the transaction read
IncreaseShardsCommitDirty(p) ==
    /\ pc[p] = "is_commit"
    /\ LET l == loc[p] IN
       \/ /\ IF l.changed
             THEN /\ configs' = Put(configs, l.name, [Shards |-> l.cfg])
                  /\ stale' = [q \in Procs |->
                                  stale[q] \/ (q # p /\ ReadsConfig(q, l.name))]
             ELSE UNCHANGED <<configs, stale>>
          /\ LET pre == IF l.name \in DOMAIN configs THEN configs[l.name].Shards ELSE 0
                 post == configs'[l.name].Shards
             IN /\ Finish(p, [l EXCEPT !.pre = pre, !.post = post,
                                       !.prev = lastIS[l.name]], 0, NoErr, "")
                /\ lastIS' = [lastIS EXCEPT ![l.name] =
                                 [set |-> TRUE, n |-> l.n, pre |-> pre, post |-> post,
                                  most |-> IF @.most < l.n THEN l.n ELSE @.most]]
       \/ /\ Finish(p, [l EXCEPT !.storeFailed = TRUE], 0, ErrStore, "")
          /\ stale' = [stale EXCEPT ![p] = FALSE]
          /\ UNCHANGED <<configs, lastIS>>
    /\ UNCHANGED <<store, nextId, committed, now, workload, shards, cache, calls, succeeded, pop>>

IncreaseShardsCommit(p) ==
    /\ pc[p] = "is_commit"
    /\ LET l == loc[p] IN
       \/ /\ stale[p]
          /\ pc' = [pc EXCEPT ![p] = "is_body"]
          /\ loc' = [loc EXCEPT ![p].retried = TRUE]
          /\ UNCHANGED <<configs, ret, stale, lastIS>>
       \/ /\ ~stale[p]
          /\ IF l.changed
             THEN /\ configs' = Put(configs, l.name, [Shards |-> l.cfg])
                  /\ stale' = [q \in Procs |->
                                  stale[q] \/ (q # p /\ ReadsConfig(q, l.name))]
             ELSE UNCHANGED <<configs, stale>>
          /\ LET pre == IF l.name \in DOMAIN configs THEN configs[l.name].Shards ELSE 0
                 post == configs'[l.name].Shards
             IN /\ Finish(p, [l EXCEPT !.pre = pre, !.post = post,
                                       !.prev = lastIS[l.name]], 0, NoErr, "")
                /\ lastIS' = [lastIS EXCEPT ![l.name] =
                                 [set |-> TRUE, n |-> l.n, pre |-> pre, post |-> post,
                                  most |-> IF @.most < l.n THEN l.n ELSE @.most]]
       \/ /\ Finish(p, [l EXCEPT !.storeFailed = TRUE], 0, ErrStore, "")
          /\ stale' = [stale EXCEPT ![p] = FALSE]
          /\ UNCHANGED <<configs, lastIS>>
    /\ UNCHANGED <<store, nextId, committed, now, workload, shards, cache, calls, succeeded, pop>>

(* ------------------------ entities: plumbing -------------------------- *)

\* the keys the Datastore has given out so far
Issued == {OintmentKey(i) : i \in 1..(nextId[KindOintment] - 1)}
          \cup {SessionKey(i) : i \in 1..(nextId[KindSession] - 1)}

\* the ids callers pass: the keys given out so far (of one kind in a run), a
\* key that was never given out, and a string that is no key
Ids == {"bad", OintmentKey(0)} \cup Issued

counterVars == <<configs, shards, stale, succeeded, pop, lastIS>>

\* q is in a call on the entity under id
OnId(q, id) == pc[q] # "idle" /\ id # "" /\ loc[q].id = id

\* a call of a run on entities or on sessions begins
Begin(p, w, l, where) ==
    /\ workload \in w
    /\ pc[p] = "idle"
    /\ calls < MaxCalls
    /\ loc' = [q \in Procs |->
                  IF q = p
                  THEN [l EXCEPT !.alone = \A r \in Procs \ {p} : ~OnId(r, l.id),
                                 !.delStart = l.id \in Issued \ DOMAIN store,
                                 !.coldStart = l.id \notin DOMAIN cache]
                  ELSE IF OnId(q, l.id) THEN [loc[q] EXCEPT !.alone = FALSE]
                  ELSE loc[q]]
    /\ pc' = [pc EXCEPT ![p] = where]
    /\ calls' = calls + 1
    /\ ret' = [ret EXCEPT ![p] = RetZero]
    /\ UNCHANGED <<cache, store, nextId, committed, now, workload>>
    /\ UNCHANGED counterVars

\* memcache.Get returned err == nil and json.Unmarshal did too
UsableEntry(c, k) == k \in DOMAIN c /\ Unmarshals(c[k].Value)

(* ----------------------- Save, SaveCacheEntity ------------------------ *)

StartSave(p) ==
    \E k \in {NilKey} \cup {x \in DOMAIN store : store[x].kind = KindOintment},
       v \in OintmentInputs,
       op \in {"Save", "SaveCacheEntity"} :
        Begin(p, {"entity"}, [LocZero EXCEPT !.op = op, !.m = [v EXCEPT !.KeyID = k],
                                             !.id = k, !.steady = TRUE], "sv_put")

WritesCacheAlways(op) == TRUE

\* the caller of Save is SaveCacheEntity, which goes on to the cache write
WritesCache(op) == op = "SaveCacheEntity"

\* Save: IsValid, Presave, datastore.Put, SetKey
SavePut(p) ==
    /\ pc[p] = "sv_put"
    /\ LET l == loc[p] IN
       \/ /\ ValidationError(l.m) # <<>>
          /\ Finish(p, l, 0, ValidityError(Join(ValidationError(l.m))), "")
          /\ UNCHANGED <<store, nextId, committed>>
       \/ /\ ValidationError(l.m) = <<>>
          /\ LET m1 == MakeKey(Presave(l.m))
                 key == IF m1.KeyID = IncompleteKey
                        THEN OintmentKey(nextId[KindOintment]) ELSE m1.KeyID
                 l2 == [l EXCEPT !.m = [m1 EXCEPT !.KeyID = key], !.id = key,
                                 !.touched = TRUE]
             IN /\ store' = Put(store, key, OintmentProps(m1))
                /\ nextId' = IF m1.KeyID = IncompleteKey
                              THEN [nextId EXCEPT ![KindOintment] = @ + 1] ELSE nextId
                /\ committed' = committed \cup {<<key, OintmentProps(m1)>>}
                /\ IF WritesCache(l.op)
                   THEN /\ pc' = [pc EXCEPT ![p] = "sv_set"]
                        /\ loc' = LocAfter(p, l2, key)
                        /\ UNCHANGED ret
                   ELSE /\ Leave(p, l2, 0, NoErr, "")
                        /\ loc' = LocAfter(p, LocZero, key)
       \/ /\ ValidationError(l.m) = <<>>
          /\ Finish(p, [l EXCEPT !.m = MakeKey(Presave(l.m)), !.touched = TRUE,
                                 !.storeFailed = TRUE], 0, ErrStore, "")
          /\ UNCHANGED <<store, nextId, committed>>
    /\ UNCHANGED <<cache, calls, now, workload>>
    /\ UNCHANGED counterVars

SaveSetAsPassed(p) ==
    /\ pc[p] = "sv_set"
    /\ LET l == loc[p] IN
       \/ /\ cache' = Put(cache, l.m.KeyID,
                          [Value |-> MarshalOintment([l.m EXCEPT !.Batch = @ + 1]),
                           Expiration |-> 0])
          /\ Finish(p, [l EXCEPT !.wcache = TRUE], 0, NoErr, "")
       \/ /\ UNCHANGED cache
          /\ Finish(p, [l EXCEPT !.cacheFailed = TRUE], 0, IgnoreAnyError(ErrCache), "")
    /\ UNCHANGED <<store, nextId, committed, calls, now, workload>>
    /\ UNCHANGED counterVars

\* SaveCacheEntity: memcache.Set of the saved record, its result ignored
SaveSet(p) ==
    /\ pc[p] = "sv_set"
    /\ LET l == loc[p] IN
       \/ /\ cache' = Put(cache, l.m.KeyID,
                          [Value |-> MarshalOintment(l.m), Expiration |-> 0])
          /\ Finish(p, [l EXCEPT !.wcache = TRUE], 0, NoErr, "")
       \/ /\ UNCHANGED cache
          /\ Finish(p, [l EXCEPT !.cacheFailed = TRUE], 0, IgnoreAnyError(ErrCache), "")
    /\ UNCHANGED <<store, nextId, committed, calls, now, workload>>
    /\ UNCHANGED counterVars

(* ------------------------ RetrieveEntityByID -------------------------- *)

StartRetrieve(p) ==
    \E id \in Ids, m \in IntoInputs :
        Begin(p, {"entity"},
              [LocZero EXCEPT !.op = "RetrieveEntityByID", !.id = id, !.m = m,
                              !.steady = TRUE], "rt_get")

\* memcache.Get(ctx, id) and json.Unmarshal(_m.Value, m)
RetrieveGet(p) ==
    /\ pc[p] = "rt_get"
    /\ LET l == loc[p] IN
       \/ /\ UsableEntry(cache, l.id)
          /\ Finish(p, [l EXCEPT !.m = UnmarshalOintment(cache[l.id].Value, @)],
                    0, NoErr, "cache")
       \/ /\ ~UsableEntry(cache, l.id)
          /\ pc' = [pc EXCEPT ![p] = "rt_load"]
          /\ loc' = [loc EXCEPT ![p].m =
                        IF l.id \in DOMAIN cache
                        THEN UnmarshalOintment(cache[l.id].Value, @) ELSE @,
                                  ![p].undes = l.id \in DOMAIN cache]
          /\ UNCHANGED ret
       \/ /\ pc' = [pc EXCEPT ![p] = "rt_load"]
          /\ loc' = [loc EXCEPT ![p].cacheFailed = TRUE]
          /\ UNCHANGED ret
    /\ UNCHANGED <<cache, store, nextId, committed, calls, now, workload>>
    /\ UNCHANGED counterVars

\* LoadByID: datastore.DecodeKey, datastore.Get, m.SetKey
RetrieveLoad(p) ==
    /\ pc[p] = "rt_load"
    /\ LET l == loc[p]
           lf == [l EXCEPT !.storeFailed = TRUE]
       IN \/ /\ l.id \notin Decodable
             /\ Finish(p, lf, 0, ErrDecode, "store")
          \/ /\ l.id \in Decodable
             /\ Finish(p, [lf EXCEPT !.touched = TRUE], 0, ErrStore, "store")
          \/ /\ l.id \in Decodable
             /\ l.id \notin DOMAIN store
             /\ Finish(p, [lf EXCEPT !.touched = TRUE], 0, ErrNoSuchEntity, "store")
          \/ /\ l.id \in DOMAIN store
             /\ store[l.id].kind = KindOintment
             /\ loc' = [loc EXCEPT ![p] =
                           [l EXCEPT !.touched = TRUE,
                                     !.m = LoadOintment(store[l.id], l.id, @)]]
             /\ pc' = [pc EXCEPT ![p] = "rt_set"]
             /\ UNCHANGED ret
    /\ UNCHANGED <<cache, store, nextId, committed, calls, now, workload>>
    /\ UNCHANGED counterVars

\* memcache.Set of the loaded record, its result ignored
RetrieveSet(p) ==
    /\ pc[p] = "rt_set"
    /\ LET l == loc[p] IN
       \/ /\ cache' = Put(cache, l.id, [Value |-> MarshalOintment(l.m), Expiration |-> 0])
          /\ Finish(p, [l EXCEPT !.wcache = TRUE], 0, NoErr, "store")
       \/ /\ UNCHANGED cache
          /\ Finish(p, [l EXCEPT !.cacheFailed = TRUE], 0, IgnoreAnyError(ErrCache), "store")
    /\ UNCHANGED <<store, nextId, committed, calls, now, workload>>
    /\ UNCHANGED counterVars

(* ---------------------- DeleteByID, DeleteByKey ----------------------- *)

StartDelete(p) ==
    \E id \in Ids :
        Begin(p, {"entity", "session"},
              [LocZero EXCEPT !.op = "DeleteByID", !.id = id, !.steady = TRUE],
              "dl_cache")

\* datastore.DecodeKey, then memcache.Delete(ctx, k.Encode()), its result ignored
DeleteCache(p) ==
    /\ pc[p] = "dl_cache"
    /\ LET l == loc[p] IN
       \/ /\ l.id \notin Decodable
          /\ Finish(p, [l EXCEPT !.storeFailed = TRUE], 0, ErrDecode, "")
          /\ UNCHANGED cache
       \/ /\ l.id \in Decodable
          /\ cache' = Remove(cache, l.id)
          /\ loc' = [loc EXCEPT ![p].wcache = (l.id \in DOMAIN cache)]
          /\ pc' = [pc EXCEPT ![p] = "dl_store"]
          /\ UNCHANGED ret
       \/ /\ l.id \in Decodable
          /\ loc' = [loc EXCEPT ![p].cacheFailed = TRUE]
          /\ pc' = [pc EXCEPT ![p] = "dl_store"]
          /\ UNCHANGED <<cache, ret>>
    /\ UNCHANGED <<store, nextId, committed, calls, now, workload>>
    /\ UNCHANGED counterVars

\* return datastore.Delete(ctx, k)
DeleteStore(p) ==
    /\ pc[p] = "dl_store"
    /\ LET l == loc[p] IN
       \/ /\ store' = Remove(store, l.id)
          /\ Leave(p, [l EXCEPT !.touched = TRUE], 0, NoErr, "")
          /\ loc' = LocAfter(p, LocZero, l.id)
       \/ /\ Finish(p, [l EXCEPT !.touched = TRUE, !.storeFailed = TRUE], 0, ErrStore, "")
          /\ UNCHANGED store
    /\ UNCHANGED <<cache, nextId, committed, calls, now, workload>>
    /\ UNCHANGED counterVars

(* ------------------------- MakeSessionCookie -------------------------- *)

StartIssue(p) ==
    \E d \in Durations :
        Begin(p, {"session"},
              [LocZero EXCEPT !.op = "MakeSessionCookie", !.steady = TRUE,
                              !.sess = [ZeroSession EXCEPT !.Name = "sid",
                                                           !.Value = "{}",
                                                           !.Expiration = now + d]],
              "mk_put")

\* datastore.Put under a new incomplete key of kind GAESession
IssuePut(p) ==
    /\ pc[p] = "mk_put"
    /\ LET l == loc[p]
           key == SessionKey(nextId[KindSession])
       IN \/ /\ store' = Put(store, key, SessionProps(l.sess))
             /\ nextId' = [nextId EXCEPT ![KindSession] = @ + 1]
             /\ UNCHANGED committed
             /\ loc' = LocAfter(p, [l EXCEPT !.id = key, !.touched = TRUE], key)
             /\ pc' = [pc EXCEPT ![p] = "mk_set"]
             /\ UNCHANGED ret
          \/ /\ Finish(p, [l EXCEPT !.touched = TRUE, !.storeFailed = TRUE], 0, ErrStore, "")
             /\ UNCHANGED <<store, nextId, committed>>
    /\ UNCHANGED <<cache, calls, now, workload>>
    /\ UNCHANGED counterVars

\* memcache.Set of the session, its result ignored; the cookie carries the key
IssueSet(p) ==
    /\ pc[p] = "mk_set"
    /\ LET l == loc[p] IN
       \/ /\ cache' = Put(cache, l.id, [Value |-> MarshalSession(l.sess), Expiration |-> 0])
          /\ Finish(p, [l EXCEPT !.wcache = TRUE], 0, NoErr, "")
       \/ /\ UNCHANGED cache
          /\ Finish(p, [l EXCEPT !.cacheFailed = TRUE], 0, IgnoreAnyError(ErrCache), "")
    /\ UNCHANGED <<store, nextId, committed, calls, now, workload>>
    /\ UNCHANGED counterVars

(* ---------------------------- CheckSession ---------------------------- *)

StartCheck(p) ==
    \E id \in Ids :
        Begin(p, {"session"},
              [LocZero EXCEPT !.op = "CheckSession", !.id = id, !.steady = TRUE],
              "ck_get")

\* memcache.Get(ctx, sessID) and json.Unmarshal(item.Value, s)
CheckGet(p) ==
    /\ pc[p] = "ck_get"
    /\ LET l == loc[p] IN
       \/ /\ UsableEntry(cache, l.id)
          /\ LET s == UnmarshalSession(cache[l.id].Value, l.sess) IN
             Finish(p, [l EXCEPT !.sess = s, !.ok = Valid(s, now)], 0, NoErr, "cache")
       \/ /\ ~UsableEntry(cache, l.id)
          /\ pc' = [pc EXCEPT ![p] = "ck_load"]
          /\ loc' = [loc EXCEPT ![p].sess =
                        IF l.id \in DOMAIN cache
                        THEN UnmarshalSession(cache[l.id].Value, @) ELSE @,
                                  ![p].undes = l.id \in DOMAIN cache]
          /\ UNCHANGED ret
       \/ /\ pc' = [pc EXCEPT ![p] = "ck_load"]
          /\ loc' = [loc EXCEPT ![p].cacheFailed = TRUE]
          /\ UNCHANGED ret
    /\ UNCHANGED <<cache, store, nextId, committed, calls, now, workload>>
    /\ UNCHANGED counterVars

CheckLoadReturnsError(p) ==
    /\ pc[p] = "ck_load"
    /\ LET l == loc[p]
           lf == [l EXCEPT !.storeFailed = TRUE, !.ok = FALSE]
       IN \/ /\ l.id \notin Decodable
             /\ Finish(p, lf, 0, ErrDecode, "store")
          \/ /\ l.id \in Decodable
             /\ Finish(p, [lf EXCEPT !.touched = TRUE], 0, ErrStore, "store")
          \/ /\ l.id \in DOMAIN store
             /\ store[l.id].kind = KindSession
             /\ loc' = [loc EXCEPT ![p] =
                           [l EXCEPT !.touched = TRUE,
                                     !.sess = LoadSession(store[l.id], @)]]
             /\ pc' = [pc EXCEPT ![p] = "ck_add"]
             /\ UNCHANGED ret
    /\ UNCHANGED <<cache, store, nextId, committed, calls, now, workload>>
    /\ UNCHANGED counterVars

\* datastore.DecodeKey and datastore.Get(ctx, k, s)
CheckLoad(p) ==
    /\ pc[p] = "ck_load"
    /\ LET l == loc[p]
           lf == [l EXCEPT !.storeFailed = TRUE, !.ok = FALSE]
       IN \/ /\ l.id \notin Decodable
             /\ Finish(p, lf, 0, NoErr, "store")
          \/ /\ l.id \in Decodable
             /\ Finish(p, [lf EXCEPT !.touched = TRUE], 0, NoErr, "store")
          \/ /\ l.id \in DOMAIN store
             /\ store[l.id].kind = KindSession
             /\ loc' = [loc EXCEPT ![p] =
                           [l EXCEPT !.touched = TRUE,
                                     !.sess = LoadSession(store[l.id], @)]]
             /\ pc' = [pc EXCEPT ![p] = "ck_add"]
             /\ UNCHANGED ret
    /\ UNCHANGED <<cache, store, nextId, committed, calls, now, workload>>
    /\ UNCHANGED counterVars

\* memcache.Add: stores the item only when the key holds none
Add(c, k, v) == IF k \in DOMAIN c THEN c ELSE Put(c, k, v)

\* memcache.Add of the loaded session, its result ignored; return s.Valid()
CheckAdd(p) ==
    /\ pc[p] = "ck_add"
    /\ LET l == loc[p] IN
       \/ /\ cache' = Add(cache, l.id, [Value |-> MarshalSession(l.sess), Expiration |-> 0])
          /\ Finish(p, [l EXCEPT !.wcache = (cache' # cache), !.ok = Valid(l.sess, now)],
                    0, NoErr, "store")
       \/ /\ UNCHANGED cache
          /\ Finish(p, [l EXCEPT !.cacheFailed = TRUE, !.ok = Valid(l.sess, now)],
                    0, IgnoreAnyError(ErrCache), "store")
    /\ UNCHANGED <<store, nextId, committed, calls, now, workload>>
    /\ UNCHANGED counterVars

(* ------------------------------- clock -------------------------------- *)

Tick ==
    /\ workload = "session"
    /\ now < StartTime + MaxTicks
    /\ now' = now + 1
    /\ UNCHANGED <<cache, store, nextId, committed, pc, loc, ret, calls, workload>>
    /\ UNCHANGED counterVars

(* ------------------------------ Memcache ------------------------------ *)

\* a Session whose Expiration was never set
UnsetSession == [ZeroSession EXCEPT !.Name = "sid"]

\* what other code leaves in the cache: bytes that do not deserialize and, in
\* a run on sessions, a Session without expiration
ForeignDocs ==
    IF workload = "session" THEN {BrokenDoc, MarshalSession(UnsetSession)}
    ELSE {BrokenDoc}

\* other code of the application stores a Session without expiration
StoreForeign ==
    /\ workload = "session"
    /\ calls < MaxCalls
    /\ store' = Put(store, SessionKey(nextId[KindSession]), SessionProps(UnsetSession))
    /\ nextId' = [nextId EXCEPT ![KindSession] = @ + 1]
    /\ calls' = calls + 1
    /\ UNCHANGED <<cache, committed, now, workload, pc, loc, ret>>
    /\ UNCHANGED counterVars

\* other code of the application leaves bytes under the key of an entity
CacheForeign ==
    /\ workload \in {"entity", "session"}
    /\ calls < MaxCalls
    /\ \E id \in Ids \cap Decodable, d \in ForeignDocs :
          /\ cache' = Put(cache, id, [Value |-> d, Expiration |-> 0])
          /\ loc' = [q \in Procs |->
                        IF OnId(q, id) THEN [loc[q] EXCEPT !.alone = FALSE] ELSE loc[q]]
    /\ calls' = calls + 1
    /\ UNCHANGED <<store, nextId, committed, now, workload, pc, ret>>
    /\ UNCHANGED counterVars

\* an entry expires or is evicted
CacheDrop ==
    /\ \E k \in DOMAIN cache : cache' = Remove(cache, k)
    /\ pop' = [c \in Names |->
                  IF counterMemcacheKey(c) \in DOMAIN cache'
                  THEN pop[c] ELSE PopZero]
    /\ UNCHANGED <<store, nextId, committed, now, workload, configs, shards, pc, loc, stale, ret, calls, succeeded, lastIS>>

(* --------------------------- specification ---------------------------- *)

Next ==
    \/ \E p \in Procs : StartIncrement(p)
    \/ \E p \in Procs : IncCfgBody(p)
    \/ \E p \in Procs : IncCfgCommit(p)
    \/ \E p \in Procs : IncShardBody(p)
    \/ \E p \in Procs : IncShardCommit(p)
    \/ \E p \in Procs : IncCache(p)
    \/ \E p \in Procs : StartCount(p)
    \/ \E p \in Procs : CountGet(p)
    \/ \E p \in Procs : CountNext(p)
    \/ \E p \in Procs : CountSet(p)
    \/ \E p \in Procs : StartIncreaseShards(p)
    \/ \E p \in Procs : IncreaseShardsBody(p)
    \/ \E p \in Procs : IncreaseShardsCommit(p)
    \/ \E p \in Procs : StartSave(p)
    \/ \E p \in Procs : SavePut(p)
    \/ \E p \in Procs : SaveSet(p)
    \/ \E p \in Procs : StartRetrieve(p)
    \/ \E p \in Procs : RetrieveGet(p)
    \/ \E p \in Procs : RetrieveLoad(p)
    \/ \E p \in Procs : RetrieveSet(p)
    \/ \E p \in Procs : StartDelete(p)
    \/ \E p \in Procs : DeleteCache(p)
    \/ \E p \in Procs : DeleteStore(p)
    \/ \E p \in Procs : StartIssue(p)
    \/ \E p \in Procs : IssuePut(p)
    \/ \E p \in Procs : IssueSet(p)
    \/ \E p \in Procs : StartCheck(p)
    \/ \E p \in Procs : CheckGet(p)
    \/ \E p \in Procs : CheckLoad(p)
    \/ \E p \in Procs : CheckAdd(p)
    \/ Tick
    \/ CacheForeign
    \/ StoreForeign
    \/ CacheDrop

Spec == Init /\ [][Next]_vars

\* runs on counters alone: on one counter, and on two counters of which one
\* is named like a shard key of the other
InitCounter == Start({"counter"})
InitCounters == Start({"counters"})

NextCounter ==
    \/ \E p \in Procs : StartIncrement(p)
    \/ \E p \in Procs : IncCfgBody(p)
    \/ \E p \in Procs : IncCfgCommit(p)
    \/ \E p \in Procs : IncShardBody(p)
    \/ \E p \in Procs : IncShardCommit(p)
    \/ \E p \in Procs : IncCache(p)
    \/ \E p \in Procs : StartCount(p)
    \/ \E p \in Procs : CountGet(p)
    \/ \E p \in Procs : CountNext(p)
    \/ \E p \in Procs : CountSet(p)
    \/ \E p \in Procs : StartIncreaseShards(p)
    \/ \E p \in Procs : IncreaseShardsBody(p)
    \/ \E p \in Procs : IncreaseShardsCommit(p)
    \/ CacheDrop

SpecCounter == InitCounter /\ [][NextCounter]_vars
SpecCounters == InitCounters /\ [][NextCounter]_vars

\* runs on entities alone
InitEntity == Start({"entity"})

NextEntity ==
    \/ \E p \in Procs : StartSave(p)
    \/ \E p \in Procs : SavePut(p)
    \/ \E p \in Procs : SaveSet(p)
    \/ \E p \in Procs : StartRetrieve(p)
    \/ \E p \in Procs : RetrieveGet(p)
    \/ \E p \in Procs : RetrieveLoad(p)
    \/ \E p \in Procs : RetrieveSet(p)
    \/ \E p \in Procs : StartDelete(p)
    \/ \E p \in Procs : DeleteCache(p)
    \/ \E p \in Procs : DeleteStore(p)
    \/ CacheForeign
    \/ CacheDrop

SpecEntity == InitEntity /\ [][NextEntity]_vars

\* runs on sessions alone
InitSession == Start({"session"})

NextSession ==
    \/ \E p \in Procs : StartDelete(p)
    \/ \E p \in Procs : DeleteCache(p)
    \/ \E p \in Procs : DeleteStore(p)
    \/ \E p \in Procs : StartIssue(p)
    \/ \E p \in Procs : IssuePut(p)
    \/ \E p \in Procs : IssueSet(p)
    \/ \E p \in Procs : StartCheck(p)
    \/ \E p \in Procs : CheckGet(p)
    \/ \E p \in Procs : CheckLoad(p)
    \/ \E p \in Procs : CheckAdd(p)
    \/ Tick
    \/ CacheForeign
    \/ StoreForeign
    \/ CacheDrop

SpecSession == InitSession /\ [][NextSession]_vars

(* ------------------------------ claims ------------------------------- *)

RECURSIVE SumCounts(_)
SumCounts(K) ==
    IF K = {} THEN 0
    ELSE LET k == CHOOSE x \in K : TRUE IN shards[k].Count + SumCounts(K \ {k})

\* the sum of the counts of the shard records of counter name
ShardSum(name) == SumCounts({k \in DOMAIN shards : shards[k].Name = name})

Max(a, b) == IF a < b THEN b ELSE a

\* C1: a Count that misses the cache, begun when k Increment calls had
\* returned nil and none was under way, and during which no shard was
\* written, returns k.
C1_CountEqualsSuccessfulIncrements ==
    \A p \in Procs :
        ( /\ ret[p].l.op = "Count"
          /\ ret[p].path = "scan"
          /\ ret[p].err = NoErr
          /\ ret[p].l.quiet
          /\ ret[p].l.steady )
        => ret[p].value = ret[p].l.k0

\* C2: no step lowers the stored Shards of a counter or removes its config.
C2_ShardCountNeverDecreases ==
    [][\A c \in DOMAIN configs :
          /\ c \in DOMAIN configs'
          /\ configs'[c].Shards >= configs[c].Shards]_vars

\* an IncreaseShards asking for less than is stored has returned nil
C2_Witness ==
    \E p \in Procs :
        /\ ret[p].l.op = "IncreaseShards"
        /\ ret[p].err = NoErr
        /\ ret[p].l.pre > ret[p].l.n
        /\ ret[p].l.n > 0
        /\ succeeded[ret[p].l.name] > 0

\* C3 as stated: IncreaseShards(n) and then IncreaseShards(m), m < n, leave
\* Shards = n.
C3_SecondCallLeavesN ==
    \A p \in Procs :
        ( /\ ret[p].l.op = "IncreaseShards"
          /\ ret[p].err = NoErr
          /\ ret[p].l.prev.set
          /\ ret[p].l.n < ret[p].l.prev.n )
        => ret[p].l.post = ret[p].l.prev.n

\* the Shards in force before a commit that found pre stored
InForce(pre) == IF pre = 0 THEN defaultShards ELSE pre

\* C3 as amended: IncreaseShards(n) and then IncreaseShards(m), m < n, leave
\* Shards as the first call left it, the larger of n and the Shards in force
\* before the first call (the stored one, or the default).
C3_SecondCallLeavesFirstResult ==
    \A p \in Procs :
        ( /\ ret[p].l.op = "IncreaseShards"
          /\ ret[p].err = NoErr
          /\ ret[p].l.prev.set
          /\ ret[p].l.n < ret[p].l.prev.n )
        => /\ ret[p].l.post = ret[p].l.prev.post
           /\ ret[p].l.post = Max(InForce(ret[p].l.prev.pre), ret[p].l.prev.n)

\* IncreaseShards(6) and then IncreaseShards(3) have returned nil
C3_Witness ==
    \E p \in Procs :
        /\ ret[p].l.op = "IncreaseShards"
        /\ ret[p].err = NoErr
        /\ ret[p].l.prev.set
        /\ ret[p].l.n < ret[p].l.prev.n
        /\ ret[p].l.prev.n > defaultShards
        /\ ret[p].l.post = ret[p].l.prev.n

\* C4: IncreaseShards(n) that returns nil leaves Shards = max(c, n), c the
\* Shards stored before it or the default when there was no config.
C4_StoresMax ==
    \A p \in Procs :
        (ret[p].l.op = "IncreaseShards" /\ ret[p].err = NoErr)
        => ret[p].l.post = Max(InForce(ret[p].l.pre), ret[p].l.n)

\* IncreaseShards(3) on a counter without config has stored the default
C4_Witness ==
    \E p \in Procs :
        /\ ret[p].l.op = "IncreaseShards"
        /\ ret[p].err = NoErr
        /\ ret[p].l.pre = 0
        /\ ret[p].l.n = 3
        /\ ret[p].l.post = defaultShards

\* caller p takes the step of its call that stands at where
Steps(p, where) == pc[p] = where /\ pc'[p] # where

\* p's cache read in Count returns the cached total, the store untouched
ReturnsCached(p) ==
    /\ pc'[p] = "idle"
    /\ ret'[p].err = NoErr
    /\ ret'[p].path = "cache"
    /\ ret'[p].value = DecodeInt(cache[counterMemcacheKey(loc[p].name)].Value)
    /\ ~ret'[p].l.touched

\* C5 as stated: when a cached total exists, Count returns it with no error
\* and no store read.
C5_CachedTotalReturned ==
    [][\A p \in Procs :
          (Steps(p, "cnt_get") /\ counterMemcacheKey(loc[p].name) \in DOMAIN cache)
          => ReturnsCached(p)]_vars

\* C5 as amended: when a cached total exists and the cache read succeeds,
\* Count returns it with no error and no store read; when the read fails
\* Count goes on to the scan.
C5_CacheHitReturned ==
    [][\A p \in Procs :
          (Steps(p, "cnt_get") /\ counterMemcacheKey(loc[p].name) \in DOMAIN cache)
          => IF loc'[p].cacheFailed
             THEN pc'[p] = "cnt_scan"
             ELSE ReturnsCached(p)]_vars

\* a Count has returned a cached total that differs from the shards' sum
C5_Witness ==
    \E p \in Procs :
        /\ ret[p].l.op = "Count"
        /\ ret[p].path = "cache"
        /\ ~ret[p].l.touched
        /\ ret[p].value # ShardSum(ret[p].l.name)

\* the cache holds total v for counter name
CacheHolds(c, name, v) ==
    /\ counterMemcacheKey(name) \in DOMAIN c
    /\ c[counterMemcacheKey(name)].Value = EncodeInt(v)

\* C6 as stated: a Count that found no cached total returns the sum of the
\* counter's shard counts, and when it has returned the cache holds that sum.
C6_MissReturnsSumAndCachesIt ==
    [][\A p \in Procs :
          Steps(p, "cnt_set")
          => /\ ret'[p].err = NoErr
             /\ ret'[p].value = ShardSum(loc[p].name)
             /\ CacheHolds(cache', loc[p].name, ret'[p].value)]_vars

\* C6 as amended: a Count that found no cached total returns the sum of the
\* shard counts its scan read, which is the sum of the counter's shard counts
\* when no shard was written during the scan; when it has returned, the cache
\* holds that sum if the cache write succeeded and is unchanged if it failed.
C6_MissReturnsSumAndTriesToCacheIt ==
    [][\A p \in Procs :
          Steps(p, "cnt_set")
          => /\ ret'[p].err = NoErr
             /\ ret'[p].path = "scan"
             /\ loc[p].steady => ret'[p].value = ShardSum(loc[p].name)
             /\ IF ret'[p].l.wcache
                THEN CacheHolds(cache', loc[p].name, ret'[p].value)
                ELSE cache' = cache]_vars

\* a Count has summed two shard records and its total is in the cache
C6_Witness ==
    \E p \in Procs :
        /\ ret[p].l.op = "Count"
        /\ ret[p].path = "scan"
        /\ ret[p].l.steady
        /\ ret[p].l.wcache
        /\ ret[p].value >= 2
        /\ Cardinality(DOMAIN shards) >= 2
        /\ CacheHolds(cache, ret[p].l.name, ret[p].value)

\* C7 as stated: a Count answered from the total v that an earlier Count
\* cached returns v, also when an Increment committed in between.
C7_SecondCountReturnsPopulatedValue ==
    [][\A p \in Procs :
          ( /\ Steps(p, "cnt_get")
            /\ pc'[p] = "idle"
            /\ pop[loc[p].name].set
            /\ pop[loc[p].name].commits >= 1 )
          => ret'[p].value = pop[loc[p].name].v]_vars

\* C7 as amended: a Count answered from the total v that an earlier Count
\* cached returns, without a store read, v plus one for every Increment whose
\* update of the cached total was applied in between.
C7_SecondCountReturnsBumpedValue ==
    [][\A p \in Procs :
          ( /\ Steps(p, "cnt_get")
            /\ pc'[p] = "idle"
            /\ pop[loc[p].name].set )
          => /\ ret'[p].value = pop[loc[p].name].v + pop[loc[p].name].bumps
             /\ ~ret'[p].l.touched]_vars

\* Count, a whole Increment, and a Count answered from the cache with one more
C7_Witness ==
    \E p \in Procs :
        /\ ret[p].l.op = "Count"
        /\ ret[p].path = "cache"
        /\ pop[ret[p].l.name].set
        /\ pop[ret[p].l.name].commits = 1
        /\ pop[ret[p].l.name].bumps = 1
        /\ ret[p].value = pop[ret[p].l.name].v + 1

\* the cached total of counter name, -1 when there is none
Cached(c, name) ==
    IF counterMemcacheKey(name) \in DOMAIN c
    THEN DecodeInt(c[counterMemcacheKey(name)].Value)
    ELSE -1

\* C8 as stated: Increment's last step adds 1 to a cached total that exists,
\* creates none, and returns nil.
C8_CachedTotalBumped ==
    [][\A p \in Procs :
          Steps(p, "inc_cache")
          => /\ ret'[p].err = NoErr
             /\ Cached(cache', loc[p].name) =
                   IF Cached(cache, loc[p].name) = -1
                   THEN -1 ELSE Cached(cache, loc[p].name) + 1]_vars

\* C8 as amended: Increment's last step returns nil; if its cache call
\* succeeds it adds 1 to a cached total that exists and creates none; if the
\* call fails the cache is left as it was.
C8_CachedTotalBumpedBestEffort ==
    [][\A p \in Procs :
          Steps(p, "inc_cache")
          => /\ ret'[p].err = NoErr
             /\ IF ret'[p].l.cacheFailed
                THEN cache' = cache
                ELSE Cached(cache', loc[p].name) =
                        IF Cached(cache, loc[p].name) = -1
                        THEN -1 ELSE Cached(cache, loc[p].name) + 1]_vars

\* an Increment has returned after adding 1 to the cached total
C8_Witness ==
    \E p \in Procs :
        /\ ret[p].l.op = "Increment"
        /\ ret[p].err = NoErr
        /\ ret[p].l.wcache
        /\ Cached(cache, ret[p].l.name) >= 1

\* C9: an Increment whose config or shard transaction fails returns that
\* error; the failing step writes nothing, and the call has written no shard
\* record and has not changed the cached total.
C9_FailedIncrementWritesNothing ==
    [][\A p \in Procs :
          (pc[p] \in IncPcs /\ pc'[p] = "idle" /\ pc[p] # "inc_cache")
          => /\ ret'[p].err = ErrStore
             /\ shards' = shards
             /\ configs' = configs
             /\ cache' = cache
             /\ ~ret'[p].l.wshard
             /\ ~ret'[p].l.wcache]_vars

\* an Increment has failed in its shard transaction, the cached total standing
C9_Witness ==
    \E p \in Procs :
        /\ ret[p].l.op = "Increment"
        /\ ret[p].err = ErrStore
        /\ ret[p].l.name \in DOMAIN configs
        /\ Cached(cache, ret[p].l.name) >= 0

\* caller p's call returns in this step
Returns(p) == pc[p] # "idle" /\ pc'[p] = "idle"

\* what p's returning call yields when it finds the cache empty: the result
\* computed from the store
ColdResult(p) ==
    LET l == loc[p]
        r == ret'[p]
    IN CASE l.op = "Count" ->
              /\ r.path = "scan"
              /\ l.steady => r.value = ShardSum(l.name)
         [] l.op = "Increment" -> r.l.wshard
         [] l.op = "RetrieveEntityByID" ->
              /\ r.path = "store"
              /\ r.l.m.KeyID = l.id
              /\ l.steady => (l.id \in DOMAIN store /\ OintmentProps(r.l.m) = store[l.id])
         [] l.op = "SaveCacheEntity" ->
              /\ r.l.m.KeyID \in Issued
              /\ l.steady => (r.l.m.KeyID \in DOMAIN store
                              /\ OintmentProps(r.l.m) = store[r.l.m.KeyID])
         [] l.op = "DeleteByID" -> l.id \notin DOMAIN store'
         [] l.op = "MakeSessionCookie" ->
              /\ r.l.id \in Issued
              /\ l.steady => (r.l.id \in DOMAIN store /\ SessionProps(r.l.sess) = store[r.l.id])
         [] l.op = "CheckSession" ->
              /\ r.path = "store"
              /\ l.steady => ( /\ l.id \in DOMAIN store
                               /\ r.l.ok = Valid(LoadSession(store[l.id], ZeroSession), now) )
         [] OTHER -> TRUE

\* C10: no call returns an error of the cache; a call in which a Memcache call
\* failed and no Datastore-side call did (datastore.DecodeKey among them)
\* returns nil and the result it computes from the store when it finds the
\* cache empty.
C10_CacheFailuresNeverSurface ==
    [][\A p \in Procs :
          Returns(p)
          => /\ ret'[p].err # ErrCache
             /\ (ret'[p].l.cacheFailed /\ ~ret'[p].l.storeFailed)
                => (ret'[p].err = NoErr /\ ColdResult(p))]_vars

\* a Retrieve whose cache read failed has returned the stored record, and a
\* SaveCacheEntity whose cache write failed has returned nil
C10_Witness ==
    \E p, q \in Procs :
        /\ ret[p].l.op = "RetrieveEntityByID"
        /\ ret[p].l.cacheFailed
        /\ ret[p].err = NoErr
        /\ ret[p].l.m.Name = "a"
        /\ ret[q].l.op = "SaveCacheEntity"
        /\ ret[q].l.cacheFailed
        /\ ret[q].err = NoErr

\* C11: a Count whose scan fails, at its first record or after some were
\* read, returns the error with a total of 0 and has written nothing to the
\* cache.
C11_FailedScanReturnsZero ==
    \A p \in Procs :
        (ret[p].l.op = "Count" /\ ret[p].err # NoErr)
        => /\ ret[p].err = ErrStore
           /\ ret[p].value = 0
           /\ ~ret[p].l.wcache

\* the record a cache entry holds: what it deserializes to on its own
CachedRecord(c, id) == UnmarshalOintment(c[id].Value, ZeroOintment)

\* C12: when the cache holds a deserializable entry under id and Retrieve(id,
\* into) reads it, Retrieve returns success with the cached value and without
\* a store read, whether or not the store still holds the record.
C12_CachedEntryReturned ==
    [][\A p \in Procs :
          ( /\ Steps(p, "rt_get")
            /\ UsableEntry(cache, loc[p].id)
            /\ ~loc'[p].cacheFailed )
          => /\ pc'[p] = "idle"
             /\ ret'[p].err = NoErr
             /\ ~ret'[p].l.touched
             /\ ret'[p].l.m = CachedRecord(cache, loc[p].id)]_vars

\* the store read of Retrieve has read the record under the id
LoadedFromStore(p) ==
    /\ pc'[p] = "rt_set"
    /\ OintmentProps(loc'[p].m) = store[loc[p].id]
    /\ loc'[p].m.KeyID = loc[p].id

\* Retrieve returns the loaded record, and the cache entry it wrote is it
ReturnsLoaded(p) ==
    /\ ret'[p].err = NoErr
    /\ ret'[p].l.m = loc[p].m
    /\ ret'[p].l.wcache
       => /\ UsableEntry(cache', loc[p].id)
          /\ CachedRecord(cache', loc[p].id) = ret'[p].l.m

\* C13 as stated: a Retrieve that found no entry, or one that does not
\* deserialize, under id while the store holds a record for id reads that
\* record, assigns its key and returns success, and the cache entry it has
\* written is that record.
C13_MissLoadsAndCaches ==
    [][\A p \in Procs :
          /\ ( /\ Steps(p, "rt_load")
               /\ ~loc[p].cacheFailed
               /\ loc[p].id \in DOMAIN store )
             => LoadedFromStore(p)
          /\ Steps(p, "rt_set") => ReturnsLoaded(p)]_vars

\* C13 as amended: the same when the store read succeeds; when it fails
\* although the store holds the record, Retrieve returns the store's error.
C13_MissLoadsAndCachesIfReadSucceeds ==
    [][\A p \in Procs :
          /\ ( /\ Steps(p, "rt_load")
               /\ ~loc[p].cacheFailed
               /\ loc[p].id \in DOMAIN store )
             => IF pc'[p] = "idle"
                THEN ret'[p].err = ErrStore /\ ret'[p].l.storeFailed
                ELSE LoadedFromStore(p)
          /\ Steps(p, "rt_set") => ReturnsLoaded(p)]_vars

\* a Retrieve that read an undeserializable entry has returned the stored
\* record, which is now the cache entry
C13_Witness ==
    \E p \in Procs :
        /\ ret[p].l.op = "RetrieveEntityByID"
        /\ ret[p].err = NoErr
        /\ ret[p].path = "store"
        /\ ret[p].l.undes
        /\ ret[p].l.wcache
        /\ ret[p].l.m.Name = "a"
        /\ UsableEntry(cache, ret[p].l.id)
        /\ CachedRecord(cache, ret[p].l.id) = ret[p].l.m

\* the error of LoadByID for id when its read fails
StoreErrors(id) ==
    IF id = "bad" THEN {ErrDecode}
    ELSE IF id \notin DOMAIN store THEN {ErrNoSuchEntity, ErrStore}
    ELSE {ErrStore}

\* C14: when Retrieve has missed the cache and its store read fails (the id
\* does not decode, there is no record, or the read fails), it returns the
\* store's error, leaves the cache as it was and the caller's record as it
\* was passed in, without a key.
C14_FailedReadLeavesRecord ==
    [][\A p \in Procs :
          (Steps(p, "rt_load") /\ pc'[p] = "idle" /\ ~loc[p].undes)
          => /\ ret'[p].err \in StoreErrors(loc[p].id)
             /\ cache' = cache
             /\ ~ret'[p].l.wcache
             /\ ret'[p].l.m = loc[p].m
             /\ ret'[p].l.m \in IntoInputs
             /\ ret'[p].l.m.KeyID = NilKey]_vars

\* a Retrieve into a used record has found neither entry nor stored record
\* for a key that was given out, and the record is as it was
C14_Witness ==
    \E p \in Procs :
        /\ ret[p].l.op = "RetrieveEntityByID"
        /\ ret[p].err = ErrNoSuchEntity
        /\ ~ret[p].l.undes
        /\ ~ret[p].l.cacheFailed
        /\ ret[p].l.id \in Issued
        /\ ret[p].l.m.Name = "old"

\* C15: the record of a Retrieve that returns success is, field by field,
\* the cache entry that was read or the store record that was read, whatever
\* the caller's record held before and whatever an entry that failed to
\* deserialize had assigned.
C15_SingleSource ==
    [][\A p \in Procs :
          /\ (Steps(p, "rt_get") /\ pc'[p] = "idle")
             => ret'[p].l.m = CachedRecord(cache, loc[p].id)
          /\ (Steps(p, "rt_load") /\ pc'[p] = "rt_set") => LoadedFromStore(p)
          /\ Steps(p, "rt_set") => ret'[p].l.m = loc[p].m]_vars

\* C16 as stated: when DeleteByKey(key) returns success the cache holds no
\* entry under key, and a Retrieve on key that begins after it fails with
\* the store's not-found error.
C16_DeletedIsGone ==
    [][\A p \in Procs :
          /\ (Steps(p, "dl_store") /\ ret'[p].err = NoErr)
             => /\ loc[p].id \notin DOMAIN store'
                /\ loc[p].id \notin DOMAIN cache'
          /\ (Returns(p) /\ loc[p].op = "RetrieveEntityByID" /\ loc[p].delStart)
             => ret'[p].err = ErrNoSuchEntity]_vars

\* C16 as amended: when DeleteByKey(key) returns success the store holds no
\* record under key, and the cache holds no entry under key if the cache
\* delete succeeded and no other call on key overlapped the delete; a
\* Retrieve on key that begins in that state, with no other call on key
\* overlapping it, fails with the store's not-found error, or with the error
\* of its failed store read, and leaves the cache without an entry.
C16_DeletedIsGoneBestEffort ==
    [][\A p \in Procs :
          /\ (Steps(p, "dl_store") /\ ret'[p].err = NoErr)
             => /\ loc[p].id \notin DOMAIN store'
                /\ (loc[p].alone /\ ~loc[p].cacheFailed)
                   => loc[p].id \notin DOMAIN cache'
          /\ ( /\ Returns(p)
               /\ loc[p].op = "RetrieveEntityByID"
               /\ loc[p].delStart
               /\ loc[p].coldStart
               /\ loc[p].alone )
             => /\ ret'[p].err \in {ErrNoSuchEntity, ErrStore}
                /\ loc[p].id \notin DOMAIN cache']_vars

\* a record was saved and cached, deleted, and a Retrieve that began after
\* the delete has returned not-found
C16_Witness ==
    \E p, q \in Procs :
        /\ p # q
        /\ ret[q].l.op = "DeleteByID"
        /\ ret[q].err = NoErr
        /\ ret[q].l.wcache
        /\ ret[q].l.alone
        /\ ret[p].l.op = "RetrieveEntityByID"
        /\ ret[p].l.id = ret[q].l.id
        /\ ret[p].l.delStart
        /\ ret[p].l.coldStart
        /\ ret[p].l.alone
        /\ ret[p].err = ErrNoSuchEntity

\* C17: Save of a record without a name returns the validation error, the
\* violations joined, before any I/O: nothing is written to the store or the
\* cache, the pre-save hook has not run, and the record is as it was, without
\* a new key.
C17_InvalidSaveDoesNothing ==
    [][\A p \in Procs :
          (Steps(p, "sv_put") /\ loc[p].m.Name = "")
          => /\ pc'[p] = "idle"
             /\ ret'[p].err = "validation error - Name is required"
             /\ ret'[p].err = ValidityError(Join(ValidationError(loc[p].m)))
             /\ ~ret'[p].l.touched
             /\ store' = store
             /\ cache' = cache
             /\ nextId' = nextId
             /\ ret'[p].l.m = loc[p].m]_vars

\* a Save of a record with an expiry and no name, under the key of a stored
\* record, has returned the validation error; the expiry is as it was
C17_Witness ==
    \E p \in Procs :
        /\ ret[p].l.op = "Save"
        /\ ret[p].err = ValidityError("Name is required")
        /\ ret[p].l.m.KeyID \in DOMAIN store
        /\ ret[p].l.m.Expiry = StartTime + 3
        /\ store[ret[p].l.m.KeyID].Name # ""

\* the record of p's Save after the step: returned, or held for the cache write
SavedRecord(p) == IF pc'[p] = "idle" THEN ret'[p].l.m ELSE loc'[p].m

\* p's step is a Save whose store write succeeded
SaveSucceeds(p) ==
    /\ Steps(p, "sv_put")
    /\ loc[p].m.Name # ""
    /\ pc'[p] = "idle" => ret'[p].err = NoErr

\* p's step is a Save of a valid record whose store write failed
SaveFailsInStore(p) ==
    /\ Steps(p, "sv_put")
    /\ loc[p].m.Name # ""
    /\ pc'[p] = "idle"
    /\ ret'[p].err # NoErr

\* the expiry the pre-save hook of the record leaves
Clamped(t) == IF t = ZeroTime THEN ZeroTime ELSE t - 1

\* C18: a Save of a valid record runs the pre-save hook, then writes the
\* store, then writes the key back: what is stored is the record as the hook
\* left it, the record afterwards carries the key the store assigned (its own
\* key, or a key never given out before on a first save), and a load under
\* that key gives the record's field values; when the write fails the hook
\* has already run and no store key was written back.
C18_SaveOrder ==
    [][\A p \in Procs :
          /\ SaveSucceeds(p)
             => LET m == loc[p].m
                    m2 == SavedRecord(p)
                    key == m2.KeyID
                IN /\ m2.Name = m.Name
                   /\ m2.Batch = m.Batch
                   /\ m2.Expiry = Clamped(m.Expiry)
                   /\ IF m.KeyID = NilKey
                      THEN key \notin Issued \cup {NilKey, IncompleteKey}
                      ELSE key = m.KeyID
                   /\ key \in DOMAIN store'
                   /\ store'[key] = OintmentProps(m2)
                   /\ LoadOintment(store'[key], key, ZeroOintment) = m2
                   /\ \A k \in DOMAIN store \ {key} :
                         k \in DOMAIN store' /\ store'[k] = store[k]
          /\ SaveFailsInStore(p)
             => /\ ret'[p].err = ErrStore
                /\ store' = store
                /\ ret'[p].l.m.Expiry = Clamped(loc[p].m.Expiry)
                /\ ret'[p].l.m.KeyID \in {loc[p].m.KeyID, IncompleteKey}]_vars

\* a Save of a record with an expiry has returned success: the record carries
\* a key and the hook's expiry, and the store holds that expiry under the key
C18_Witness ==
    \E p \in Procs :
        /\ ret[p].l.op = "Save"
        /\ ret[p].err = NoErr
        /\ ret[p].l.m.Expiry = StartTime + 2
        /\ ret[p].l.m.KeyID \in DOMAIN store
        /\ store[ret[p].l.m.KeyID].Expiry = StartTime + 2

\* C19: a plain Save touches no cache entry: the cache is the same before and
\* after each of its steps, whether it succeeds or fails, and it ends there.
C19_SaveLeavesCache ==
    [][\A p \in Procs :
          (pc[p] # "idle" /\ loc[p].op = "Save" /\ pc'[p] # pc[p])
          => /\ cache' = cache
             /\ pc'[p] = "idle"
             /\ ~ret'[p].l.wcache
             /\ ~ret'[p].l.cacheFailed]_vars

\* a Save has replaced the stored record under a key while the cache still
\* holds, under that key, the record as it was
C19_Witness ==
    \E p \in Procs :
        /\ ret[p].l.op = "Save"
        /\ ret[p].err = NoErr
        /\ LET key == ret[p].l.m.KeyID
           IN /\ key \in DOMAIN store
              /\ store[key] = OintmentProps(ret[p].l.m)
              /\ UsableEntry(cache, key)
              /\ OintmentProps(CachedRecord(cache, key)) # store[key]

\* C20: SaveCacheEntity writes the store, then the cache. When its Save fails
\* (validation or store error) that error is returned and the cache is not
\* written; after a successful Save it returns success whether or not the
\* cache write succeeds, and when the write succeeds the entry under the
\* record's key is the saved record.
C20_StoreThenCache ==
    [][\A p \in Procs :
          /\ (Steps(p, "sv_put") /\ loc[p].op = "SaveCacheEntity"
                /\ pc'[p] = "idle")
             => /\ ret'[p].err \in {ErrStore, ValidityError("Name is required")}
                /\ ret'[p].err = ErrStore <=> loc[p].m.Name # ""
                /\ cache' = cache
                /\ store' = store
                /\ ~ret'[p].l.wcache
          /\ (Steps(p, "sv_put") /\ loc[p].op = "SaveCacheEntity"
                /\ pc'[p] # "idle")
             => /\ pc'[p] = "sv_set"
                /\ cache' = cache
                /\ store'[loc'[p].m.KeyID] = OintmentProps(loc'[p].m)
          /\ Steps(p, "sv_set")
             => LET m == loc[p].m IN
                /\ loc[p].op = "SaveCacheEntity"
                /\ loc[p].touched
                /\ pc'[p] = "idle"
                /\ ret'[p].err = NoErr
                /\ ret'[p].l.m = m
                /\ store' = store
                /\ IF ret'[p].l.wcache
                   THEN /\ UsableEntry(cache', m.KeyID)
                        /\ CachedRecord(cache', m.KeyID) = m
                        /\ \A k \in DOMAIN cache \ {m.KeyID} :
                              k \in DOMAIN cache' /\ cache'[k] = cache[k]
                   ELSE cache' = cache]_vars

\* SaveCacheEntity has returned success with the entry under the record's key
\* equal to the record, and, in another call, with its cache write failed
C20_Witness ==
    \E p, q \in Procs :
        /\ ret[p].l.op = "SaveCacheEntity"
        /\ ret[p].err = NoErr
        /\ ret[p].l.wcache
        /\ UsableEntry(cache, ret[p].l.m.KeyID)
        /\ CachedRecord(cache, ret[p].l.m.KeyID) = ret[p].l.m
        /\ ret[p].l.m.Expiry # ZeroTime
        /\ ret[q].l.op = "SaveCacheEntity"
        /\ ret[q].err = NoErr
        /\ ret[q].l.cacheFailed
        /\ ret[q].l.m.KeyID \in DOMAIN store

\* the entry under k is one the package wrote: it deserializes
OwnEntry(k) == UsableEntry(cache, k)

\* the entry under k is the record of a value the store committed under k
SnapshotOfCommit(k) ==
    /\ CachedRecord(cache, k).KeyID = k
    /\ <<k, OintmentProps(CachedRecord(cache, k))>> \in committed

\* C21: in every state of a run of Save, SaveCacheEntity, RetrieveEntityByID
\* and DeleteByID, each cache entry the package wrote under a key is the
\* record of a value the store committed under that key, now or earlier.
C21_CacheIsSnapshot ==
    workload = "entity"
    => \A k \in DOMAIN cache : OwnEntry(k) => SnapshotOfCommit(k)

\* the cache holds a record that the store no longer holds under its key (the
\* key was saved again, or deleted), and another that the store holds now
C21_Witness ==
    /\ workload = "entity"
    /\ \E k \in DOMAIN cache :
          /\ OwnEntry(k)
          /\ k \in DOMAIN store
          /\ store[k] # OintmentProps(CachedRecord(cache, k))
    /\ \E k \in DOMAIN cache :
          /\ OwnEntry(k)
          /\ k \in DOMAIN store
          /\ store[k] = OintmentProps(CachedRecord(cache, k))

\* the session the cache holds under the token, read into a fresh Session
CachedSession(c, id) == UnmarshalSession(c[id].Value, ZeroSession)

\* C22: MakeSessionCookie writes the store, then the cache. When the store
\* write fails it returns the error and no cache entry is written; when it
\* succeeds the token is the key the store assigned, the call returns success
\* whether or not the cache write succeeds, and after a successful cache write
\* the entry under the token is the stored session.
C22_IssueStoreThenCache ==
    [][\A p \in Procs :
          /\ (Steps(p, "mk_put") /\ pc'[p] = "idle")
             => /\ ret'[p].err = ErrStore
                /\ cache' = cache
                /\ store' = store
                /\ ~ret'[p].l.wcache
          /\ (Steps(p, "mk_put") /\ pc'[p] # "idle")
             => LET key == loc'[p].id IN
                /\ pc'[p] = "mk_set"
                /\ cache' = cache
                /\ key \notin Issued \cup {NilKey}
                /\ key \in DOMAIN store' \ DOMAIN store
                /\ store'[key] = SessionProps(loc[p].sess)
                /\ loc'[p].sess = loc[p].sess
                /\ \A k \in DOMAIN store : store'[k] = store[k]
          /\ Steps(p, "mk_set")
             => LET key == loc[p].id IN
                /\ loc[p].touched
                /\ key \in Issued
                /\ pc'[p] = "idle"
                /\ ret'[p].err = NoErr
                /\ ret'[p].l.id = key
                /\ store' = store
                /\ IF ret'[p].l.wcache
                   THEN /\ UsableEntry(cache', key)
                        /\ CachedSession(cache', key) = loc[p].sess
                        /\ \A k \in DOMAIN cache \ {key} :
                              k \in DOMAIN cache' /\ cache'[k] = cache[k]
                   ELSE cache' = cache]_vars

\* one MakeSessionCookie has returned its token with the stored session in
\* the cache under it, another with its cache write failed and the session in
\* the store only
C22_Witness ==
    \E p, q \in Procs :
        /\ ret[p].l.op = "MakeSessionCookie"
        /\ ret[p].err = NoErr
        /\ ret[p].l.wcache
        /\ ret[p].l.id \in DOMAIN store
        /\ UsableEntry(cache, ret[p].l.id)
        /\ SessionProps(CachedSession(cache, ret[p].l.id)) = store[ret[p].l.id]
        /\ ret[q].l.op = "MakeSessionCookie"
        /\ ret[q].err = NoErr
        /\ ret[q].l.cacheFailed
        /\ ret[q].l.id \in DOMAIN store \ DOMAIN cache

\* C23: CheckSession returns a boolean and never an error. It returns false
\* when the token is no key, when neither the cache nor the store holds a
\* session under it, when the store read fails, and when the cache holds
\* bytes that do not deserialize and the store holds no such session.
C23_BooleanOnly ==
    [][\A p \in Procs :
          /\ (pc[p] \in {"ck_get", "ck_load", "ck_add"} /\ pc'[p] = "idle")
             => /\ ret'[p].err = NoErr
                /\ ret'[p].l.ok \in BOOLEAN
          /\ Steps(p, "ck_get")
             => pc'[p] = "idle" <=> ret'[p].path = "cache"
          /\ (Steps(p, "ck_get") /\ pc'[p] = "idle")
             => UsableEntry(cache, loc[p].id)
          /\ (Steps(p, "ck_load") /\ pc'[p] = "idle")
             => ~ret'[p].l.ok
          /\ (Steps(p, "ck_load")
                /\ (loc[p].id \notin Decodable \/ loc[p].id \notin DOMAIN store))
             => pc'[p] = "idle" /\ ~ret'[p].l.ok]_vars

\* CheckSession has answered false for a string that is no key, and, in
\* another call, for a key under which the cache held bytes that do not
\* deserialize and the store held no session
C23_Witness ==
    \E p, q \in Procs :
        /\ ret[p].l.op = "CheckSession"
        /\ ret[p].l.id \notin Decodable
        /\ ~ret[p].l.ok
        /\ ret[p].err = NoErr
        /\ ret[q].l.op = "CheckSession"
        /\ ret[q].l.undes
        /\ ret[q].l.id \in Decodable \ DOMAIN store
        /\ ~ret[q].l.ok
        /\ ret[q].err = NoErr

\* the expiration e is set and not before the time t
Current(e, t) == e # ZeroTime /\ e >= t

C24_ExpiredAtIssue ==
    \E p, q \in Procs :
        /\ ret[p].l.op = "CheckSession" /\ ret[p].path = "cache" /\ ~ret[p].l.ok
        /\ ret[q].l.op = "CheckSession" /\ ret[q].path = "store" /\ ~ret[q].l.ok
        /\ ret[q].l.id = ret[p].l.id
        /\ ret[p].l.sess.Expiration = StartTime - 1
        /\ ret[q].l.sess.Expiration = StartTime - 1
        /\ now = StartTime

\* a session without expiration is found invalid, from the cache and from
\* the store
C24_UnsetIsInvalid ==
    \E p, q \in Procs :
        /\ ret[p].l.op = "CheckSession" /\ ret[p].path = "cache" /\ ~ret[p].l.ok
        /\ ret[p].l.sess = UnsetSession
        /\ ret[q].l.op = "CheckSession" /\ ret[q].path = "store" /\ ~ret[q].l.ok
        /\ ret[q].l.sess = UnsetSession
        /\ ret[q].l.wcache

\* a session issued for a positive duration is found valid from the store
C24_ValidFromStore ==
    \E p \in Procs :
        /\ ret[p].l.op = "CheckSession" /\ ret[p].path = "store" /\ ret[p].l.ok
        /\ ret[p].l.sess.Expiration >= now

\* C25: when CheckSession got no usable session from the cache and its store
\* read succeeds, the session it holds is the stored one, and when its
\* memcache.Add is accepted the cache holds that session under the token;
\* a CheckSession that reads such an entry answers from it, with no store
\* read.
C25_LoadedSessionCached ==
    [][\A p \in Procs :
          /\ (Steps(p, "ck_load") /\ pc'[p] = "ck_add")
             => /\ loc[p].id \in DOMAIN store
                /\ SessionProps(loc'[p].sess) = store[loc[p].id]
          /\ (Steps(p, "ck_add") /\ ret'[p].l.wcache)
             => /\ UsableEntry(cache', loc[p].id)
                /\ SessionProps(CachedSession(cache', loc[p].id))
                      = SessionProps(loc[p].sess)
                /\ ret'[p].l.sess = loc[p].sess
                /\ ret'[p].path = "store"
          /\ (Steps(p, "ck_get") /\ UsableEntry(cache, loc[p].id)
                /\ ~loc'[p].cacheFailed)
             => /\ pc'[p] = "idle"
                /\ ret'[p].path = "cache"
                /\ ~ret'[p].l.touched
                /\ ret'[p].l.sess = CachedSession(cache, loc[p].id)]_vars

\* a CheckSession that missed the cache has loaded the session and added it,
\* and the next CheckSession of the token was answered from the cache
C25_Witness ==
    \E p, q \in Procs :
        /\ ret[p].l.op = "CheckSession"
        /\ ret[p].path = "store"
        /\ ret[p].l.wcache
        /\ ~ret[p].l.undes
        /\ ret[q].l.op = "CheckSession"
        /\ ret[q].l.id = ret[p].l.id
        /\ ret[q].path = "cache"
        /\ ~ret[q].l.touched
        /\ ret[q].l.sess = ret[p].l.sess
        /\ ret[q].l.ok

\* a CheckSession that read bytes that do not deserialize has loaded the
\* session, and its memcache.Add was refused: the bytes are still there
C25_BrokenStays ==
    \E p \in Procs :
        /\ ret[p].l.op = "CheckSession"
        /\ ret[p].path = "store"
        /\ ret[p].l.undes
        /\ ret[p].l.ok
        /\ ~ret[p].l.wcache
        /\ ~ret[p].l.cacheFailed
        /\ ret[p].l.id \in DOMAIN cache
        /\ cache[ret[p].l.id].Value = BrokenDoc

\* a CheckSession that read bytes that do not deserialize has loaded the
\* session and, the bytes evicted meanwhile, added it
C25_BrokenReplaced ==
    \E p \in Procs :
        /\ ret[p].l.op = "CheckSession"
        /\ ret[p].l.undes
        /\ ret[p].l.wcache
        /\ UsableEntry(cache, ret[p].l.id)

\* C26: whatever the interleaving and the re-executions of the transaction
\* bodies, the stored Shards of a counter is the larger of the default (no
\* config existed at first) and the n of every IncreaseShards that has
\* returned nil.
C26_StoredIsMaximum ==
    \A c \in Names :
        /\ lastIS[c].set => c \in DOMAIN configs
        /\ c \in DOMAIN configs
           => configs[c].Shards = Max(defaultShards, lastIS[c].most)

\* two IncreaseShards of one counter, for 6 and for 3, have returned nil, the
\* one for 6 after its transaction body was run again; 6 is stored
C26_Witness ==
    \E p, q \in Procs :
        /\ ret[p].l.op = "IncreaseShards"
        /\ ret[p].err = NoErr
        /\ ret[p].l.n = 6
        /\ ret[p].l.retried
        /\ ret[q].l.op = "IncreaseShards"
        /\ ret[q].err = NoErr
        /\ ret[q].l.n = 3
        /\ ret[q].l.name = ret[p].l.name
        /\ ret[q].l.post = defaultShards
        /\ configs[ret[p].l.name].Shards = 6

\* the config of p's counter exists with at least the Shards p asks for
Enough(p) ==
    /\ loc[p].name \in DOMAIN configs
    /\ configs[loc[p].name].Shards >= loc[p].n

\* p, in IncreaseShards, takes a step
StepsIncreaseShards(p) ==
    /\ loc[p].op = "IncreaseShards"
    /\ pc[p] \in {"is_body", "is_commit"}
    /\ pc'[p] # pc[p]

\* p's step writes no record, and p's commit has no Put to apply
WritesNothing(p) ==
    /\ configs' = configs
    /\ shards' = shards
    /\ cache' = cache
    /\ (pc[p] = "is_commit" /\ pc'[p] = "idle" /\ ret'[p].err = NoErr)
       => ~loc[p].changed

\* p's step writes the config only if it was absent or below n, and a commit
\* that returns nil having found it so has written it
WritesOnlyToRaise(p) ==
    /\ configs' # configs => ~Enough(p)
    /\ (pc[p] = "is_commit" /\ pc'[p] = "idle" /\ ret'[p].err = NoErr /\ ~Enough(p))
       => /\ loc[p].changed
          /\ configs'[loc[p].name].Shards = Max(defaultShards, loc[p].n)
             \/ configs'[loc[p].name].Shards = loc[p].n

\* C27 as stated: IncreaseShards(name, n) on a config with Shards >= n
\* writes nothing and returns nil; it writes the config only when it was
\* absent or below n.
C27_NoWriteWhenEnough ==
    [][\A p \in Procs :
          StepsIncreaseShards(p)
          => /\ Enough(p) => /\ WritesNothing(p)
                             /\ pc'[p] = "idle" => ret'[p].err = NoErr
             /\ WritesOnlyToRaise(p)]_vars

\* C27 as amended: the same, the call returning nil unless a call to the
\* Datastore fails, and then its error.
C27_NoWriteWhenEnoughUnlessFailed ==
    [][\A p \in Procs :
          StepsIncreaseShards(p)
          => /\ Enough(p) => /\ WritesNothing(p)
                             /\ pc'[p] = "idle"
                                => \/ ret'[p].err = NoErr
                                   \/ ret'[p].err = ErrStore /\ ret'[p].l.storeFailed
             /\ WritesOnlyToRaise(p)]_vars

\* an IncreaseShards for 3 has returned nil on a config of 6 without a Put,
\* the 6 stored by an earlier IncreaseShards
C27_Witness ==
    \E p \in Procs :
        /\ ret[p].l.op = "IncreaseShards"
        /\ ret[p].err = NoErr
        /\ ret[p].l.n = 3
        /\ ret[p].l.pre = 6
        /\ ret[p].l.post = 6
        /\ ~ret[p].l.changed
        /\ ret[p].l.prev.set
        /\ ret[p].l.prev.post = 6

\* C28: no step of Increment, Count or IncreaseShards, re-executed
\* transaction bodies included, removes a shard record or lowers its count,
\* every count is at least 0, and so the sum of a counter's shard counts
\* never goes down.
C28_ShardsOnlyGrow ==
    [][/\ \A k \in DOMAIN shards :
             /\ k \in DOMAIN shards'
             /\ shards'[k].Count >= shards[k].Count
             /\ shards'[k].Name = shards[k].Name
       /\ \A k \in DOMAIN shards' : shards'[k].Count >= 0
       /\ \A c \in Names : ShardSum(c)' >= ShardSum(c)]_vars

\* an Increment whose transaction body was run again has returned nil, with
\* two shard records stored that sum to 2 or more
C28_Witness ==
    \E p \in Procs :
        /\ ret[p].l.op = "Increment"
        /\ ret[p].err = NoErr
        /\ ret[p].l.retried
        /\ ret[p].l.wshard
        /\ Cardinality(DOMAIN shards) >= 2
        /\ ShardSum(ret[p].l.name) >= 2

\* C29: deserializing the serialized form of a record into the record a
\* caller supplies gives a record with that serialized form: every field has
\* the serialized value, the zero time of an empty string included, whatever
\* the caller's record held.
C29_RoundTrip ==
    [][\A p \in Procs :
          (Steps(p, "rt_get") /\ pc'[p] = "idle")
          => LET d == cache[loc[p].id].Value IN
             /\ d = MarshalOintment(CachedRecord(cache, loc[p].id))
             /\ ret'[p].l.m = UnmarshalOintment(d, loc[p].m)
             /\ MarshalOintment(ret'[p].l.m) = d
             /\ d.Expiry = "" => ret'[p].l.m.Expiry = ZeroTime]_vars

\* the count committed for the shard under k, 0 when there is no record
CommittedCount(k) == IF k \in DOMAIN shards THEN shards[k].Count ELSE 0

\* C30: every execution of the body of Increment's shard transaction, a
\* re-execution with a newly drawn shard included, prepares for the drawn
\* shard its committed count plus 1, and that is what a commit writes.
C30_WritesCommittedPlusOne ==
    [][\A p \in Procs :
          /\ (Steps(p, "inc_shard") /\ pc'[p] = "inc_shard_commit")
             => loc'[p].s.Count = CommittedCount(loc'[p].key) + 1
          /\ (Steps(p, "inc_shard_commit") /\ pc'[p] = "inc_cache")
             => shards'[loc[p].key].Count = CommittedCount(loc[p].key) + 1]_vars

\* the keys of the shards of counter c with an index below n
ShardKeysBelow(c, n) == {ShardKey(c, i) : i \in 0..(n - 1)}

\* C31: the shard an Increment draws, and writes, has an index below the
\* Shards the call read in its config step, which is at most the Shards
\* stored at the write, an IncreaseShards in between or not; every shard
\* record has an index below the stored Shards of its counter.
C31_IndexBelowShards ==
    [][/\ \A p \in Procs :
             /\ (Steps(p, "inc_shard") /\ pc'[p] = "inc_shard_commit")
                => loc'[p].key \in ShardKeysBelow(loc[p].name, loc[p].cfg)
             /\ (Steps(p, "inc_shard_commit") /\ pc'[p] = "inc_cache")
                => /\ loc[p].key \in ShardKeysBelow(loc[p].name, loc[p].cfg)
                   /\ loc[p].name \in DOMAIN configs
                   /\ loc[p].cfg <= configs[loc[p].name].Shards
                   /\ DOMAIN shards' = DOMAIN shards \cup {loc[p].key}
       /\ \A k \in DOMAIN shards' :
             /\ shards'[k].Name \in DOMAIN configs'
             /\ k \in ShardKeysBelow(shards'[k].Name, configs'[shards'[k].Name].Shards)]_vars

\* an Increment that read the default in its config step has written its
\* shard, the stored Shards raised to 6 by an IncreaseShards meanwhile
C31_Witness ==
    \E p \in Procs :
        /\ pc[p] = "inc_cache"
        /\ loc[p].wshard
        /\ loc[p].cfg = defaultShards
        /\ loc[p].key \in DOMAIN shards
        /\ lastIS[loc[p].name].set
        /\ lastIS[loc[p].name].pre = defaultShards
        /\ configs[loc[p].name].Shards = 6

\* C32: a config that exists has Shards of at least the default, whatever n
\* IncreaseShards was given, 0 included; an Increment about to draw a shard
\* holds such a Shards, so it has an index to draw.
C32_AtLeastDefault ==
    /\ \A c \in DOMAIN configs : configs[c].Shards >= defaultShards
    /\ \A p \in Procs :
          pc[p] = "inc_shard"
          => /\ loc[p].cfg >= defaultShards
             /\ Intn(loc[p].cfg) # {}

\* IncreaseShards(0) on a counter without config has returned nil and stored
\* the default, and an Increment is about to draw among that many shards
C32_Witness ==
    \E p, q \in Procs :
        /\ ret[p].l.op = "IncreaseShards"
        /\ ret[p].err = NoErr
        /\ ret[p].l.n = 0
        /\ ret[p].l.pre = 0
        /\ ret[p].l.post = defaultShards
        /\ pc[q] = "inc_shard"
        /\ loc[q].name = ret[p].l.name
        /\ loc[q].cfg = defaultShards
        /\ ~loc[q].changed

\* p, in Increment, takes a step
StepsIncrement(p) == pc[p] \in IncPcs /\ pc'[p] # pc[p]

\* C33: an Increment writes its shard only after its config step, which
\* leaves a config that exists as it is and stores the default when there is
\* none; so a counter with a shard record has a config, in every state.
C33_ConfigBeforeShard ==
    [][/\ \A p \in Procs :
             StepsIncrement(p)
             => /\ loc[p].name \in DOMAIN configs => configs' = configs
                /\ configs' # configs
                   => /\ pc[p] = "inc_cfg_commit"
                      /\ configs' = Put(configs, loc[p].name, [Shards |-> defaultShards])
                /\ shards' # shards
                   => /\ pc[p] = "inc_shard_commit"
                      /\ loc[p].name \in DOMAIN configs
                /\ pc'[p] \in {"inc_shard", "inc_shard_commit", "inc_cache"}
                   => loc[p].name \in DOMAIN configs'
       /\ \A k \in DOMAIN shards' : shards'[k].Name \in DOMAIN configs']_vars

\* an Increment that found no config has stored the default and then written
\* a shard; another that found the config has left it and written a shard
C33_Witness ==
    \E p, q \in Procs :
        /\ pc[p] = "inc_cache"
        /\ loc[p].changed
        /\ loc[p].wshard
        /\ pc[q] = "inc_cache"
        /\ ~loc[q].changed
        /\ loc[q].wshard
        /\ loc[q].name = loc[p].name
        /\ configs[loc[p].name].Shards = defaultShards
        /\ Cardinality(DOMAIN shards) >= 1

\* p, in Increment, Count or IncreaseShards, takes a step
StepsCounter(p) ==
    \/ pc'[p] # pc[p]
    \/ pc[p] = "cnt_scan" /\ loc'[p] # loc[p]

\* the counter of the call in which p takes its step
CounterOf(p) == IF pc[p] = "idle" THEN loc'[p].name ELSE loc[p].name

\* the config, the shard records and the cached total of counter b are,
\* after the step, what they were
Untouched(b) ==
    /\ b \in DOMAIN configs <=> b \in DOMAIN configs'
    /\ b \in DOMAIN configs => configs'[b] = configs[b]
    /\ \A k \in ShardKeysBelow(b, MaxShards) :
          /\ k \in DOMAIN shards <=> k \in DOMAIN shards'
          /\ k \in DOMAIN shards => shards'[k] = shards[k]
    /\ \A k \in DOMAIN shards' : shards'[k].Name = b => k \in DOMAIN shards
    /\ ShardSum(b)' = ShardSum(b)
    /\ counterMemcacheKey(b) \in DOMAIN cache <=> counterMemcacheKey(b) \in DOMAIN cache'
    /\ counterMemcacheKey(b) \in DOMAIN cache
       => cache'[counterMemcacheKey(b)] = cache[counterMemcacheKey(b)]

\* C34: a step of Increment, Count or IncreaseShards on counter a leaves the
\* config, every shard record and the cached total of every other counter
\* as they were, also when the other name is a with "-shard1" appended.
C34_OtherCountersUntouched ==
    [][\A p \in Procs :
          (workload \in {"counter", "counters"} /\ StepsCounter(p))
          => \A b \in Names \ {CounterOf(p)} : Untouched(b)]_vars

\* counter "hits" has its shard 1, stored under "hits-shard1", and a cached
\* total; counter "hits-shard1" has a config and a shard of its own and no
\* cached total
C34_Witness ==
    /\ ShardKey("hits", 1) = "hits-shard1"
    /\ "hits-shard1" \in DOMAIN shards
    /\ shards["hits-shard1"].Name = "hits"
    /\ "hits-shard1" \in DOMAIN configs
    /\ ShardSum("hits-shard1") = 1
    /\ CacheHolds(cache, "hits", 1)
    /\ counterMemcacheKey("hits-shard1") \notin DOMAIN cache

\* every call made so far is the running or the last returned call of its
\* process, and no Memcache call of any of them has failed
ReliableCache ==
    /\ calls = Cardinality({p \in Procs : pc[p] # "idle"})
               + Cardinality({p \in Procs : ret[p] # RetZero})
    /\ \A p \in Procs : ~loc[p].cacheFailed /\ ~ret[p].l.cacheFailed

\* C35 as stated: with a reliable cache, a cached total that is present for
\* a counter is never greater than the sum of that counter's shard counts in
\* the store.
C35_CacheNeverOverReports ==
    \A c \in Names :
       (/\ ReliableCache
        /\ counterMemcacheKey(c) \in DOMAIN cache
        /\ IsInt(cache[counterMemcacheKey(c)].Value))
       => DecodeInt(cache[counterMemcacheKey(c)].Value) <= ShardSum(c)

\* C36 as stated: the scan of a Count that missed the cache ends with a total
\* v with a <= v <= b, a the number of shard transactions of Increment on the
\* counter committed when the scan began, b the number committed when it ended.
C36_BetweenCommits ==
    [][\A p \in Procs :
          (pc[p] = "cnt_scan" /\ pc'[p] = "cnt_set")
          => /\ loc[p].c0 <= loc'[p].total
             /\ loc'[p].total <= ShardCommits(loc[p].name)']_vars

\* the lower bound alone
C36_AtLeastCommittedBefore ==
    [][\A p \in Procs :
          (pc[p] = "cnt_scan" /\ pc'[p] = "cnt_set")
          => loc[p].c0 <= loc'[p].total]_vars

\* C37 as stated: DeleteByKey has removed the cache entry when it issues the
\* store delete, and when the store delete fails the error is returned and
\* the store record is still present.
C37_GoneWhenDeleteFails ==
    [][\A p \in Procs :
          /\ (pc[p] = "dl_cache" /\ pc'[p] = "dl_store")
             => loc[p].id \notin DOMAIN cache'
          /\ (pc[p] = "dl_store" /\ pc'[p] = "idle" /\ ret'[p].err = ErrStore)
             => store' = store]_vars

\* C37, amended: DeleteByKey calls the cache delete before the store delete;
\* the cache delete leaves the store alone and, unless it fails, leaves no
\* entry under the key; the store delete leaves the cache alone and returns
\* nil with the record removed or its error with the store as it was.
\* DeleteByID with an undecodable id returns the decode error and changes
\* neither cache nor store.
C37_CacheFirstThenStoreOutcome ==
    [][\A p \in Procs :
          /\ pc'[p] = "dl_store" => pc[p] \in {"dl_cache", "dl_store"}
          /\ (pc[p] = "dl_cache" /\ pc'[p] = "dl_store")
             => /\ loc[p].id \in Decodable
                /\ store' = store
                /\ IF loc'[p].cacheFailed
                   THEN cache' = cache
                   ELSE /\ loc[p].id \notin DOMAIN cache'
                        /\ \A k \in DOMAIN cache \ {loc[p].id} :
                              k \in DOMAIN cache' /\ cache'[k] = cache[k]
          /\ (pc[p] = "dl_store" /\ pc'[p] = "idle")
             => /\ cache' = cache
                /\ \/ /\ ret'[p].err = NoErr
                      /\ loc[p].id \notin DOMAIN store'
                      /\ \A k \in DOMAIN store \ {loc[p].id} :
                            k \in DOMAIN store' /\ store'[k] = store[k]
                   \/ /\ ret'[p].err = ErrStore
                      /\ store' = store
          /\ (pc[p] = "dl_cache" /\ pc'[p] = "idle")
             => /\ loc[p].id \notin Decodable
                /\ ret'[p].err = ErrDecode
                /\ cache' = cache
                /\ store' = store]_vars

\* a DeleteByID has returned the store's error after its cache delete removed
\* the entry, the record is in the store and no entry is in the cache, and
\* another DeleteByID, of an undecodable id, has returned the decode error
C37_Witness ==
    \E p, q \in Procs :
       /\ ret[p].l.op = "DeleteByID"
       /\ ret[p].err = ErrStore
       /\ ret[p].l.wcache
       /\ ret[p].l.id \in DOMAIN store
       /\ ret[p].l.id \notin DOMAIN cache
       /\ ret[q].l.op = "DeleteByID"
       /\ ret[q].err = ErrDecode
       /\ ret[q].l.id \notin Decodable

\* p's last call, a DeleteByID of id that returned nil, and q's last call, a
\* Retrieve of id that missed the cache and loaded the record, overlapped;
\* both have returned, no Memcache call of either failed, and the store has
\* no record under id
DeletedDuringRetrieve(p, q, id) ==
    /\ p # q
    /\ pc[p] = "idle" /\ pc[q] = "idle"
    /\ ret[p].l.op = "DeleteByID" /\ ret[p].l.id = id /\ ret[p].err = NoErr
    /\ ret[q].l.op = "RetrieveEntityByID" /\ ret[q].l.id = id
    /\ ret[q].err = NoErr /\ ret[q].path = "store"
    /\ ~ret[p].l.alone /\ ~ret[q].l.alone
    /\ ~ret[p].l.cacheFailed /\ ~ret[q].l.cacheFailed
    /\ id \notin DOMAIN store

\* C38 as stated: after a DeleteByKey(key) and a Retrieve(key) that
\* overlapped it have both returned, with no later save of key, the cache
\* holds no entry for key: no interleaving leaves a cache entry for a record
\* that is absent from the store.
C38_NoEntryForDeletedRecord ==
    \A p, q \in Procs : \A id \in Ids :
       DeletedDuringRetrieve(p, q, id) => id \notin DOMAIN cache

\* p's last call, a SaveCacheEntity of the record under id, and q's last
\* call, a Retrieve of id that missed the cache and loaded the record,
\* overlapped; both have returned nil with their cache writes accepted
SavedDuringRetrieve(p, q, id) ==
    /\ p # q
    /\ pc[p] = "idle" /\ pc[q] = "idle"
    /\ ret[p].l.op = "SaveCacheEntity" /\ ret[p].l.m.KeyID = id /\ ret[p].err = NoErr
    /\ ret[q].l.op = "RetrieveEntityByID" /\ ret[q].l.id = id
    /\ ret[q].err = NoErr /\ ret[q].path = "store"
    /\ ~ret[p].l.alone /\ ~ret[q].l.alone
    /\ ret[p].l.wcache /\ ret[q].l.wcache
    /\ ~ret[p].l.cacheFailed /\ ~ret[q].l.cacheFailed

\* C39 as stated: after a Retrieve(key) that missed the cache and an
\* overlapping SaveAndCache of key have both returned with all cache writes
\* accepted, the entry that the backfill of Retrieve left in the cache for
\* key is the record now in the store, not an older value.
C39_BackfillNotOlder ==
    \A p, q \in Procs : \A id \in Ids :
       (/\ SavedDuringRetrieve(p, q, id)
        /\ id \in DOMAIN store
        /\ id \in DOMAIN cache
        /\ cache[id].Value = MarshalOintment(ret[q].l.m))
       => cache[id].Value = MarshalOintment(LoadOintment(store[id], id, ZeroOintment))

\* C39, amended: after the two calls have returned with all cache writes
\* accepted, a cache entry for key that no other code has replaced is the
\* serialized record that SaveAndCache committed or the serialized record
\* that Retrieve loaded, each of them a record committed under key; it is
\* the record now in the store when that is the record Retrieve loaded and
\* the record SaveAndCache committed.
C39_BackfillIsCommittedRecord ==
    \A p, q \in Procs : \A id \in Ids :
       (/\ SavedDuringRetrieve(p, q, id)
        /\ id \in DOMAIN store
        /\ id \in DOMAIN cache
        /\ cache[id].Value \notin ForeignDocs)
       => /\ cache[id].Value \in {MarshalOintment(ret[p].l.m), MarshalOintment(ret[q].l.m)}
          /\ <<id, OintmentProps(ret[p].l.m)>> \in committed
          /\ <<id, OintmentProps(ret[q].l.m)>> \in committed
          /\ ret[p].l.m.KeyID = id /\ ret[q].l.m.KeyID = id
          /\ (OintmentProps(ret[p].l.m) = store[id] /\ OintmentProps(ret[q].l.m) = store[id])
             => cache[id].Value = MarshalOintment(LoadOintment(store[id], id, ZeroOintment))

\* the two calls have returned, the store holds the record SaveAndCache
\* committed and the cache the older record that Retrieve loaded
C39_Witness ==
    \E p, q \in Procs : \E id \in Ids :
       /\ SavedDuringRetrieve(p, q, id)
       /\ id \in DOMAIN store
       /\ id \in DOMAIN cache
       /\ store[id] = OintmentProps(ret[p].l.m)
       /\ cache[id].Value = MarshalOintment(ret[q].l.m)
       /\ ret[q].l.m # ret[p].l.m

\* the answer CheckSession gives for the session stored under id at time t,
\* written out from the record in the store alone
StoreAnswer(id, t) ==
    /\ store[id].Expiration # ZeroTime
    /\ store[id].Expiration >= t

\* p's CheckSession of a token whose session is in the store returns; if it
\* was answered from the cache, the entry it read is one that
\* MakeSessionCookie or CheckSession wrote, and no store call of it failed
ValidatesStored(p) ==
    /\ loc[p].op = "CheckSession"
    /\ Returns(p)
    /\ loc[p].id \in DOMAIN store
    /\ store[loc[p].id].kind = KindSession
    /\ ~ret'[p].l.storeFailed
    /\ ret'[p].path = "cache" => cache[loc[p].id].Value \notin ForeignDocs

\* C40: for a token whose session is in the store, with the store available,
\* the boolean that CheckSession returns is determined by the stored session
\* and the time of the return alone: it is the same whether the call found
\* the session entry in the cache, found no entry, found the entry evicted
\* or could not read the cache, so two runs of the same calls at the same
\* times that differ only in the cache entry give the same booleans.
C40_AnswerIgnoresCache ==
    [][\A p \in Procs :
          ValidatesStored(p)
          => /\ ret'[p].path \in {"cache", "store"}
             /\ ret'[p].l.ok <=> StoreAnswer(loc[p].id, now)]_vars

\* the same issued token, its session in the store and not expired, was
\* found valid by a CheckSession answered from the cache and by one that
\* found no entry and read the store
C40_Witness ==
    \E p, q \in Procs :
        /\ ret[p].l.op = "CheckSession" /\ ret[p].path = "cache" /\ ret[p].l.ok
        /\ ret[q].l.op = "CheckSession" /\ ret[q].path = "store" /\ ret[q].l.ok
        /\ ~ret[q].l.undes /\ ~ret[q].l.cacheFailed
        /\ ret[q].l.id = ret[p].l.id
        /\ ret[p].l.id \in DOMAIN store
        /\ store[ret[p].l.id].Name = "sid"
        /\ store[ret[p].l.id].Value = "{}"
        /\ StoreAnswer(ret[p].l.id, now)

====
